---- MODULE Spec2Model ----
(***************************************************************************)
(* trading-core-types: wire schemas (zod), wire <-> runtime conversion.    *)
(*                                                                         *)
(* Two revisions of the TypeScript package are modelled:                   *)
(*   "index"  src/typescript/src/index.ts  XSchema (wire schema plus       *)
(*            transform) and toWireX                                       *)
(*   "codec"  src/unnamed/part_002         XWireSchema, decodeX, encodeX   *)
(* The wire schemas of the two revisions are textually the same; the       *)
(* schema definitions below follow index.ts.                               *)
(***************************************************************************)
EXTENDS Integers, Sequences, FiniteSets, TLC

VARIABLES entity, rev, kind, input, log, heap, calls, clock

vars == <<entity, rev, kind, input, log, heap, calls, clock>>

(***************************************************************************)
(* JavaScript values.  Every value is a record tagged by t.  An object is  *)
(* a function from its own property names to values; a property can be     *)
(* present with the value undefined, which differs from an absent one.     *)
(* A Date holds its time value in milliseconds.  A Map is a function from  *)
(* its keys to its values.                                                 *)
(***************************************************************************)
Undef == [t |-> "undefined"]
Null == [t |-> "null"]
Str(s) == [t |-> "string", v |-> s]
Num(n) == [t |-> "number", v |-> n]
\* a number with a fractional part: h / 2 for an odd h (0.5, -1.5, ...)
Half(h) == [t |-> "number", v |-> h, half |-> TRUE]
DateOf(ms) == [t |-> "Date", v |-> ms]
\* an integer beyond the range of Date (above 8.64e15 in magnitude), by its
\* sign; NaN; and the Date whose time value is NaN
Beyond(sign) == [t |-> "number", v |-> sign, beyond |-> TRUE]
NaN == [t |-> "number", v |-> 0, nan |-> TRUE]
InvalidDate == [t |-> "Date", v |-> 0, invalid |-> TRUE]
Obj(f) == [t |-> "object", v |-> f]
Arr(s) == [t |-> "array", v |-> s]
MapOf(f) == [t |-> "Map", v |-> f]

EmptyFcn == [x \in {} |-> Undef]

\* o.k : reading a property that is absent gives undefined
Get(o, k) == IF k \in DOMAIN o.v THEN o.v[k] ELSE Undef

\* o.k = v : assignment of one own property; o stays the object it was
Put(o, k, val) == [o EXCEPT !.v = [x \in (DOMAIN o.v) \cup {k} |-> IF x = k THEN val ELSE o.v[x]]]

\* if (val !== undefined) o.k = val
SetIfDefined(o, k, val) == IF val # Undef THEN Put(o, k, val) ELSE o

\* ToBoolean, as used by the conditional operator and by if
Truthy(x) ==
  CASE x.t = "undefined" -> FALSE
    [] x.t = "null" -> FALSE
    [] x.t = "number" -> x.v # 0
    [] x.t = "string" -> x.v # ""
    [] OTHER -> TRUE

\* Number.isInteger(x)
IsInteger(x) == x.t = "number" /\ "half" \notin DOMAIN x /\ "nan" \notin DOMAIN x

\* the time value a Date takes from a number: the fraction is cut off,
\* towards zero
TimeClip(ms) ==
  IF IsInteger(ms) THEN ms.v
  ELSE IF ms.v > 0 THEN (ms.v - 1) \div 2 ELSE 0 - ((0 - ms.v - 1) \div 2)

\* new Date(ms): NaN and a number out of range give the invalid Date
NewDate(ms) ==
  IF "nan" \in DOMAIN ms \/ "beyond" \in DOMAIN ms THEN InvalidDate ELSE DateOf(TimeClip(ms))

\* date.getTime(): NaN for the invalid Date
GetTime(date) == IF "invalid" \in DOMAIN date THEN NaN ELSE Num(date.v)

\* date?.getTime()
OptGetTime(date) == IF date = Undef \/ date = Null THEN Undef ELSE GetTime(date)

\* new Map(Object.entries(o))
MapFromEntries(o) == MapOf(o.v)

\* Object.fromEntries(m)
ObjFromEntries(m) == Obj(m.v)

(***************************************************************************)
(* zod schemas as data, and safeParse.  A parse result is                  *)
(* [ok, value, issues]; an issue is a field path with a code.              *)
(***************************************************************************)
ZString == [z |-> "string"]
ZNumber == [z |-> "number"]
ZOptional(s) == [z |-> "optional", inner |-> s]
ZEnum(tokens) == [z |-> "enum", values |-> tokens]
ZLiteral(token) == [z |-> "literal", value |-> token]

\* ZObject rejecting the keys it does not declare (unknownKeys: "strict")
ZObjectStrict(shape) == [z |-> "object", shape |-> shape, unknownKeys |-> "strict"]

\* z.object strips the keys it does not declare (unknownKeys: "strip")
ZObject(shape) == [z |-> "object", shape |-> shape, unknownKeys |-> "strip"]
ZRecord(s) == [z |-> "record", element |-> s]
ZArray(s) == [z |-> "array", element |-> s]
ZDiscriminatedUnion(key, options) == [z |-> "discriminatedUnion", key |-> key, options |-> options]
ZAnd(l, r) == [z |-> "intersection", left |-> l, right |-> r]

Valid(val) == [ok |-> TRUE, value |-> val, issues |-> {}]

\* Invalid returning a failure that carries no issue
InvalidSilent(path, code) == [ok |-> FALSE, value |-> Undef, issues |-> {}]

Invalid(path, code) == [ok |-> FALSE, value |-> Undef, issues |-> {[path |-> path, code |-> code]}]

IndexKey(i) == <<"0", "1", "2", "3", "4", "5">>[i + 1]

\* the result of a composite schema from the results of its members: every
\* member is parsed, and the issues of all of them are reported
Collect(results, val) ==
  LET bad == UNION {results[k].issues : k \in DOMAIN results}
  IN IF \A k \in DOMAIN results : results[k].ok
       THEN Valid(val)
       ELSE [ok |-> FALSE, value |-> Undef, issues |-> bad]

\* MergeValues keeping the keys of the left side only
MergeValuesLeft(a, b) ==
  IF a.t = "object" /\ b.t = "object"
    THEN IF \A k \in (DOMAIN a.v) \cap (DOMAIN b.v) : a.v[k] = b.v[k]
           THEN Valid(a)
           ELSE Invalid(<<>>, "invalid_intersection_types")
    ELSE IF a = b THEN Valid(a) ELSE Invalid(<<>>, "invalid_intersection_types")

\* ZodIntersection: both sides parse the same input; two objects merge key
\* by key, and a key both sides hold has to carry the same value
MergeValues(a, b) ==
  IF a.t = "object" /\ b.t = "object"
    THEN IF \A k \in (DOMAIN a.v) \cap (DOMAIN b.v) : a.v[k] = b.v[k]
           THEN Valid(Obj([k \in (DOMAIN a.v) \cup (DOMAIN b.v) |->
                             IF k \in DOMAIN b.v THEN b.v[k] ELSE a.v[k]]))
           ELSE Invalid(<<>>, "invalid_intersection_types")
    ELSE IF a = b THEN Valid(a) ELSE Invalid(<<>>, "invalid_intersection_types")

RECURSIVE ZParse(_, _, _)
ZParse(s, x, path) ==
  CASE s.z = "string" ->
         IF x.t = "string" THEN Valid(x) ELSE Invalid(path, "invalid_type")
    [] s.z = "number" ->
         IF x.t = "number" /\ "nan" \notin DOMAIN x THEN Valid(x) ELSE Invalid(path, "invalid_type")
    [] s.z = "optional" ->
         IF x = Undef THEN Valid(Undef) ELSE ZParse(s.inner, x, path)
    [] s.z = "enum" ->
         IF x.t # "string" THEN Invalid(path, "invalid_type")
         ELSE IF x.v \in s.values THEN Valid(x) ELSE Invalid(path, "invalid_enum_value")
    [] s.z = "literal" ->
         IF x = Str(s.value) THEN Valid(x) ELSE Invalid(path, "invalid_literal")
    [] s.z = "object" ->
         IF x.t # "object" THEN Invalid(path, "invalid_type")
         ELSE LET r == [k \in DOMAIN s.shape |-> ZParse(s.shape[k], Get(x, k), Append(path, k))]
                  keys == {k \in DOMAIN s.shape : k \in DOMAIN x.v \/ r[k].value # Undef}
                  known == Collect(r, Obj([k \in keys |-> r[k].value]))
              IN IF s.unknownKeys = "strict" /\ (DOMAIN x.v) \ (DOMAIN s.shape) # {}
                   THEN [ok |-> FALSE, value |-> Undef,
                         issues |-> known.issues \cup Invalid(path, "unrecognized_keys").issues]
                   ELSE known
    [] s.z = "record" ->
         IF x.t # "object" THEN Invalid(path, "invalid_type")
         ELSE LET r == [k \in DOMAIN x.v |-> ZParse(s.element, x.v[k], Append(path, k))]
              IN Collect(r, Obj([k \in DOMAIN x.v |-> r[k].value]))
    [] s.z = "array" ->
         IF x.t # "array" THEN Invalid(path, "invalid_type")
         ELSE LET r == [i \in 1..Len(x.v) |-> ZParse(s.element, x.v[i], Append(path, IndexKey(i - 1)))]
              IN Collect(r, Arr([i \in 1..Len(x.v) |-> r[i].value]))
    [] s.z = "discriminatedUnion" ->
         IF x.t # "object" THEN Invalid(path, "invalid_type")
         ELSE LET d == Get(x, s.key)
                  hit == {i \in DOMAIN s.options : d = Str(s.options[i].shape[s.key].value)}
              IN IF hit = {}
                   THEN Invalid(Append(path, s.key), "invalid_union_discriminator")
                   ELSE ZParse(s.options[CHOOSE i \in hit : TRUE], x, path)
    [] s.z = "intersection" ->
         LET l == ZParse(s.left, x, path)
             r == ZParse(s.right, x, path)
         IN IF l.ok /\ r.ok
              THEN LET m == MergeValues(l.value, r.value)
                   IN IF m.ok THEN m
                      ELSE [ok |-> FALSE, value |-> Undef,
                            issues |-> {[path |-> path, code |-> "invalid_intersection_types"]}]
              ELSE [ok |-> FALSE, value |-> Undef, issues |-> l.issues \cup r.issues]

\* schema.safeParse(x)
SafeParse(s, x) == ZParse(s, x, <<>>)

(***************************************************************************)
(* Wire schemas (index.ts; part_002 declares the same shapes).             *)
(***************************************************************************)
\* AssetWireSchema demanding validUntil
AssetWireSchemaUntil ==
  ZObject([symbol |-> ZString,
           type |-> ZOptional(ZString),
           name |-> ZOptional(ZString),
           exchange |-> ZOptional(ZString),
           currency |-> ZString,
           lotSize |-> ZOptional(ZNumber),
           tickSize |-> ZOptional(ZNumber),
           validFrom |-> ZOptional(ZNumber),
           validUntil |-> ZNumber])

\* AssetWireSchema with currency declared optional
AssetWireSchemaLax ==
  ZObject([symbol |-> ZString,
           type |-> ZOptional(ZString),
           name |-> ZOptional(ZString),
           exchange |-> ZOptional(ZString),
           currency |-> ZOptional(ZString),
           lotSize |-> ZOptional(ZNumber),
           tickSize |-> ZOptional(ZNumber),
           validFrom |-> ZOptional(ZNumber),
           validUntil |-> ZOptional(ZNumber)])

AssetWireSchema ==
  ZObject([symbol |-> ZString,
           type |-> ZOptional(ZString),
           name |-> ZOptional(ZString),
           exchange |-> ZOptional(ZString),
           currency |-> ZString,
           lotSize |-> ZOptional(ZNumber),
           tickSize |-> ZOptional(ZNumber),
           validFrom |-> ZOptional(ZNumber),
           validUntil |-> ZOptional(ZNumber)])

MarketSnapshotWireSchema ==
  ZObject([price |-> ZRecord(ZNumber),
           timestamp |-> ZNumber])

MarketQuoteWireSchema ==
  ZObject([symbol |-> ZString,
           price |-> ZNumber,
           volume |-> ZOptional(ZNumber),
           totalVolume |-> ZOptional(ZNumber),
           timestamp |-> ZNumber,
           bid |-> ZOptional(ZNumber),
           bidVol |-> ZOptional(ZNumber),
           ask |-> ZOptional(ZNumber),
           askVol |-> ZOptional(ZNumber),
           preClose |-> ZOptional(ZNumber)])

\* MarketBarInterval without the month token 1M
MarketBarIntervalNoMonth ==
  ZEnum({"1m", "5m", "15m", "30m", "1h", "2h", "4h", "1d", "1w"})

MarketBarInterval ==
  ZEnum({"1m", "5m", "15m", "30m", "1h", "2h", "4h", "1d", "1w", "1M"})

MarketBarWireSchema ==
  ZObject([symbol |-> ZString,
           open |-> ZNumber,
           high |-> ZNumber,
           low |-> ZNumber,
           close |-> ZNumber,
           volume |-> ZNumber,
           timestamp |-> ZNumber,
           interval |-> MarketBarInterval])

OrderType == ZEnum({"MARKET", "LIMIT", "STOP", "STOP_LIMIT"})

OrderStatus == ZEnum({"PENDING", "OPEN", "PARTIAL", "FILLED", "CANCELLED", "REJECT"})

\* OrderActionWire with one flat effect enumeration under both sides
OrderActionWireFlat ==
  ZDiscriminatedUnion("side",
    <<ZObject([side |-> ZLiteral("BUY"),
               effect |-> ZEnum({"OPEN_LONG", "CLOSE_SHORT", "CLOSE_LONG", "OPEN_SHORT"})]),
      ZObject([side |-> ZLiteral("SELL"),
               effect |-> ZEnum({"OPEN_LONG", "CLOSE_SHORT", "CLOSE_LONG", "OPEN_SHORT"})])>>)

OrderActionWire ==
  ZDiscriminatedUnion("side",
    <<ZObject([side |-> ZLiteral("BUY"),
               effect |-> ZEnum({"OPEN_LONG", "CLOSE_SHORT"})]),
      ZObject([side |-> ZLiteral("SELL"),
               effect |-> ZEnum({"CLOSE_LONG", "OPEN_SHORT"})])>>)

OrderWireSchema ==
  ZAnd(OrderActionWire,
       ZObject([id |-> ZString,
                symbol |-> ZString,
                type |-> OrderType,
                quantity |-> ZNumber,
                price |-> ZOptional(ZNumber),
                stopPrice |-> ZOptional(ZNumber),
                created |-> ZOptional(ZNumber)]))

PartialOrderWireSchema ==
  ZObject([id |-> ZString,
           side |-> ZOptional(ZEnum({"BUY", "SELL"})),
           effect |-> ZOptional(ZEnum({"OPEN_LONG", "CLOSE_SHORT", "CLOSE_LONG", "OPEN_SHORT"})),
           symbol |-> ZOptional(ZString),
           type |-> ZOptional(OrderType),
           quantity |-> ZOptional(ZNumber),
           price |-> ZOptional(ZNumber),
           stopPrice |-> ZOptional(ZNumber),
           created |-> ZOptional(ZNumber)])

OrderStateWireSchema ==
  ZAnd(OrderWireSchema,
       ZObject([filledQuantity |-> ZNumber,
                remainingQuantity |-> ZNumber,
                status |-> OrderStatus,
                modified |-> ZNumber]))

FillWireSchema ==
  ZAnd(OrderActionWire,
       ZObject([id |-> ZString,
                orderId |-> ZString,
                symbol |-> ZString,
                quantity |-> ZNumber,
                price |-> ZNumber,
                commission |-> ZNumber,
                created |-> ZNumber]))

LongPositionLot ==
  ZObject([quantity |-> ZNumber,
           price |-> ZNumber,
           totalCost |-> ZNumber])

LongPositionWireSchema ==
  ZObject([quantity |-> ZNumber,
           totalCost |-> ZNumber,
           realisedPnL |-> ZNumber,
           lots |-> ZArray(LongPositionLot),
           modified |-> ZNumber])

ShortPositionLot ==
  ZObject([quantity |-> ZNumber,
           price |-> ZNumber,
           totalProceeds |-> ZNumber])

ShortPositionWireSchema ==
  ZObject([quantity |-> ZNumber,
           totalProceeds |-> ZNumber,
           realisedPnL |-> ZNumber,
           lots |-> ZArray(ShortPositionLot),
           modified |-> ZNumber])

PositionWireSchema ==
  ZObject([cash |-> ZNumber,
           long |-> ZOptional(ZRecord(LongPositionWireSchema)),
           short |-> ZOptional(ZRecord(ShortPositionWireSchema)),
           totalCommission |-> ZNumber,
           realisedPnL |-> ZNumber,
           modified |-> ZNumber])

\* the wire schema of each entity
WireSchema(e) ==
  CASE e = "Asset" -> AssetWireSchema
    [] e = "MarketSnapshot" -> MarketSnapshotWireSchema
    [] e = "MarketQuote" -> MarketQuoteWireSchema
    [] e = "MarketBar" -> MarketBarWireSchema
    [] e = "Order" -> OrderWireSchema
    [] e = "PartialOrder" -> PartialOrderWireSchema
    [] e = "OrderState" -> OrderStateWireSchema
    [] e = "Fill" -> FillWireSchema
    [] e = "LongPosition" -> LongPositionWireSchema
    [] e = "ShortPosition" -> ShortPositionWireSchema
    [] e = "Position" -> PositionWireSchema

(***************************************************************************)
(* Revision "codec" (part_002): encodeX and decodeX.                       *)
(***************************************************************************)
\* new Date() : the time of the call in the place of ms
msToDateNow(ms) == NewDate(Num(clock))

\* one Date of the module, set to ms and returned by every call
msToDateShared(ms) == [f \in DOMAIN NewDate(ms) \cup {"id"} |-> IF f = "id" THEN 0 ELSE NewDate(ms)[f]]

\* new Date(ms)
msToDate(ms) == NewDate(ms)

\* date.getTime()
dateToMs(date) == GetTime(date)

\* if (val !== undefined) o.k = dateToMs(val)
SetIfDefinedMs(o, k, val) == IF val # Undef THEN Put(o, k, dateToMs(val)) ELSE o

\* if (val !== undefined) o.k = msToDate(val)
SetIfDefinedDate(o, k, val) == IF val # Undef THEN Put(o, k, msToDate(val)) ELSE o

\* the side / effect branch shared by the Order and OrderState functions:
\* if (x.side === "BUY") { o.side = "BUY"; o.effect = x.effect }
\* else { o.side = "SELL"; o.effect = x.effect }
SetAction(o, x) ==
  IF Get(x, "side") = Str("BUY")
    THEN Put(Put(o, "side", Str("BUY")), "effect", Get(x, "effect"))
    ELSE Put(Put(o, "side", Str("SELL")), "effect", Get(x, "effect"))

encodeAsset(asset) ==
  LET wire0 == Obj([symbol |-> Get(asset, "symbol"),
                 currency |-> Get(asset, "currency")])
      wire1 == SetIfDefined(wire0, "type", Get(asset, "type"))
      wire2 == SetIfDefined(wire1, "name", Get(asset, "name"))
      wire3 == SetIfDefined(wire2, "exchange", Get(asset, "exchange"))
      wire4 == SetIfDefined(wire3, "lotSize", Get(asset, "lotSize"))
      wire5 == SetIfDefined(wire4, "tickSize", Get(asset, "tickSize"))
      wire6 == SetIfDefinedMs(wire5, "validFrom", Get(asset, "validFrom"))
      wire7 == SetIfDefinedMs(wire6, "validUntil", Get(asset, "validUntil"))
  IN wire7

\* decodeAsset testing the validity instants for truth instead of
\* comparing them with undefined
decodeAssetTruthy(parsed) ==
  LET asset0 == Obj([symbol |-> Get(parsed, "symbol"),
                     currency |-> Get(parsed, "currency")])
      asset1 == SetIfDefined(asset0, "type", Get(parsed, "type"))
      asset2 == SetIfDefined(asset1, "name", Get(parsed, "name"))
      asset3 == SetIfDefined(asset2, "exchange", Get(parsed, "exchange"))
      asset4 == SetIfDefined(asset3, "lotSize", Get(parsed, "lotSize"))
      asset5 == SetIfDefined(asset4, "tickSize", Get(parsed, "tickSize"))
      asset6 == IF Truthy(Get(parsed, "validFrom"))
                  THEN Put(asset5, "validFrom", msToDate(Get(parsed, "validFrom")))
                  ELSE asset5
      asset7 == IF Truthy(Get(parsed, "validUntil"))
                  THEN Put(asset6, "validUntil", msToDate(Get(parsed, "validUntil")))
                  ELSE asset6
  IN asset7

decodeAsset(parsed) ==
  LET asset0 == Obj([symbol |-> Get(parsed, "symbol"),
                 currency |-> Get(parsed, "currency")])
      asset1 == SetIfDefined(asset0, "type", Get(parsed, "type"))
      asset2 == SetIfDefined(asset1, "name", Get(parsed, "name"))
      asset3 == SetIfDefined(asset2, "exchange", Get(parsed, "exchange"))
      asset4 == SetIfDefined(asset3, "lotSize", Get(parsed, "lotSize"))
      asset5 == SetIfDefined(asset4, "tickSize", Get(parsed, "tickSize"))
      asset6 == SetIfDefinedDate(asset5, "validFrom", Get(parsed, "validFrom"))
      asset7 == SetIfDefinedDate(asset6, "validUntil", Get(parsed, "validUntil"))
  IN asset7

encodeMarketSnapshot(snapshot) ==
  Obj([price |-> ObjFromEntries(Get(snapshot, "price")),
       timestamp |-> dateToMs(Get(snapshot, "timestamp"))])

\* decodeMarketSnapshot handing the wire price object on as it is
decodeMarketSnapshotPlain(parsed) ==
  Obj([price |-> Get(parsed, "price"),
       timestamp |-> msToDate(Get(parsed, "timestamp"))])

decodeMarketSnapshot(parsed) ==
  Obj([price |-> MapFromEntries(Get(parsed, "price")),
       timestamp |-> msToDate(Get(parsed, "timestamp"))])

\* encodeMarketQuote testing the optional numbers for truth instead of
\* comparing them with undefined
encodeMarketQuoteTruthy(quote) ==
  LET wire0 == Obj([symbol |-> Get(quote, "symbol"),
                 price |-> Get(quote, "price"),
                 timestamp |-> dateToMs(Get(quote, "timestamp"))])
      opt == <<"volume", "totalVolume", "bid", "bidVol", "ask", "askVol", "preClose">>
      set(o, k) == IF Truthy(Get(quote, k)) THEN Put(o, k, Get(quote, k)) ELSE o
  IN set(set(set(set(set(set(set(wire0, opt[1]), opt[2]), opt[3]), opt[4]), opt[5]), opt[6]), opt[7])

encodeMarketQuote(quote) ==
  LET wire0 == Obj([symbol |-> Get(quote, "symbol"),
                 price |-> Get(quote, "price"),
                 timestamp |-> dateToMs(Get(quote, "timestamp"))])
      wire1 == SetIfDefined(wire0, "volume", Get(quote, "volume"))
      wire2 == SetIfDefined(wire1, "totalVolume", Get(quote, "totalVolume"))
      wire3 == SetIfDefined(wire2, "bid", Get(quote, "bid"))
      wire4 == SetIfDefined(wire3, "bidVol", Get(quote, "bidVol"))
      wire5 == SetIfDefined(wire4, "ask", Get(quote, "ask"))
      wire6 == SetIfDefined(wire5, "askVol", Get(quote, "askVol"))
      wire7 == SetIfDefined(wire6, "preClose", Get(quote, "preClose"))
  IN wire7

decodeMarketQuote(parsed) ==
  LET quote0 == Obj([symbol |-> Get(parsed, "symbol"),
                 price |-> Get(parsed, "price"),
                 timestamp |-> msToDate(Get(parsed, "timestamp"))])
      quote1 == SetIfDefined(quote0, "volume", Get(parsed, "volume"))
      quote2 == SetIfDefined(quote1, "totalVolume", Get(parsed, "totalVolume"))
      quote3 == SetIfDefined(quote2, "bid", Get(parsed, "bid"))
      quote4 == SetIfDefined(quote3, "bidVol", Get(parsed, "bidVol"))
      quote5 == SetIfDefined(quote4, "ask", Get(parsed, "ask"))
      quote6 == SetIfDefined(quote5, "askVol", Get(parsed, "askVol"))
      quote7 == SetIfDefined(quote6, "preClose", Get(parsed, "preClose"))
  IN quote7

encodeMarketBar(bar) ==
  Obj([symbol |-> Get(bar, "symbol"),
       open |-> Get(bar, "open"),
       high |-> Get(bar, "high"),
       low |-> Get(bar, "low"),
       close |-> Get(bar, "close"),
       volume |-> Get(bar, "volume"),
       timestamp |-> dateToMs(Get(bar, "timestamp")),
       interval |-> Get(bar, "interval")])

decodeMarketBar(parsed) ==
  Obj([symbol |-> Get(parsed, "symbol"),
       open |-> Get(parsed, "open"),
       high |-> Get(parsed, "high"),
       low |-> Get(parsed, "low"),
       close |-> Get(parsed, "close"),
       volume |-> Get(parsed, "volume"),
       timestamp |-> msToDate(Get(parsed, "timestamp")),
       interval |-> Get(parsed, "interval")])

\* encodeOrder writing created into its argument and returning it
encodeOrderInPlace(order) ==
  SetIfDefinedMs(order, "created", Get(order, "created"))

encodeOrder(order) ==
  LET wire0 == Obj([id |-> Get(order, "id"),
                 symbol |-> Get(order, "symbol"),
                 type |-> Get(order, "type"),
                 quantity |-> Get(order, "quantity")])
      wire1 == SetIfDefined(wire0, "price", Get(order, "price"))
      wire2 == SetIfDefined(wire1, "stopPrice", Get(order, "stopPrice"))
      wire3 == SetIfDefinedMs(wire2, "created", Get(order, "created"))
  IN SetAction(wire3, order)

\* decodeOrder giving created the epoch when the wire value holds none
decodeOrderDefaultCreated(parsed) ==
  LET order0 == Obj([id |-> Get(parsed, "id"),
                 symbol |-> Get(parsed, "symbol"),
                 type |-> Get(parsed, "type"),
                 quantity |-> Get(parsed, "quantity")])
      order1 == SetIfDefined(order0, "price", Get(parsed, "price"))
      order2 == SetIfDefined(order1, "stopPrice", Get(parsed, "stopPrice"))
      order3 == IF Get(parsed, "created") # Undef
                  THEN Put(order2, "created", msToDate(Get(parsed, "created")))
                  ELSE Put(order2, "created", msToDate(Num(0)))
  IN SetAction(order3, parsed)

decodeOrder(parsed) ==
  LET order0 == Obj([id |-> Get(parsed, "id"),
                 symbol |-> Get(parsed, "symbol"),
                 type |-> Get(parsed, "type"),
                 quantity |-> Get(parsed, "quantity")])
      order1 == SetIfDefined(order0, "price", Get(parsed, "price"))
      order2 == SetIfDefined(order1, "stopPrice", Get(parsed, "stopPrice"))
      order3 == SetIfDefinedDate(order2, "created", Get(parsed, "created"))
  IN SetAction(order3, parsed)

encodePartialOrder(order) ==
  LET wire0 == Obj([id |-> Get(order, "id")])
      wire1 == SetIfDefined(wire0, "side", Get(order, "side"))
      wire2 == SetIfDefined(wire1, "effect", Get(order, "effect"))
      wire3 == SetIfDefined(wire2, "symbol", Get(order, "symbol"))
      wire4 == SetIfDefined(wire3, "type", Get(order, "type"))
      wire5 == SetIfDefined(wire4, "quantity", Get(order, "quantity"))
      wire6 == SetIfDefined(wire5, "price", Get(order, "price"))
      wire7 == SetIfDefined(wire6, "stopPrice", Get(order, "stopPrice"))
      wire8 == SetIfDefinedMs(wire7, "created", Get(order, "created"))
  IN wire8

decodePartialOrder(parsed) ==
  LET order0 == Obj([id |-> Get(parsed, "id")])
      order1 == SetIfDefined(order0, "side", Get(parsed, "side"))
      order2 == SetIfDefined(order1, "effect", Get(parsed, "effect"))
      order3 == SetIfDefined(order2, "symbol", Get(parsed, "symbol"))
      order4 == SetIfDefined(order3, "type", Get(parsed, "type"))
      order5 == SetIfDefined(order4, "quantity", Get(parsed, "quantity"))
      order6 == SetIfDefined(order5, "price", Get(parsed, "price"))
      order7 == SetIfDefined(order6, "stopPrice", Get(parsed, "stopPrice"))
      order8 == SetIfDefinedDate(order7, "created", Get(parsed, "created"))
  IN order8

encodeOrderState(state) ==
  LET baseWire0 == Obj([id |-> Get(state, "id"),
                 symbol |-> Get(state, "symbol"),
                 type |-> Get(state, "type"),
                 quantity |-> Get(state, "quantity"),
                 filledQuantity |-> Get(state, "filledQuantity"),
                 remainingQuantity |-> Get(state, "remainingQuantity"),
                 status |-> Get(state, "status"),
                 modified |-> dateToMs(Get(state, "modified"))])
      baseWire1 == SetIfDefined(baseWire0, "price", Get(state, "price"))
      baseWire2 == SetIfDefined(baseWire1, "stopPrice", Get(state, "stopPrice"))
      baseWire3 == SetIfDefinedMs(baseWire2, "created", Get(state, "created"))
  IN SetAction(baseWire3, state)

decodeOrderState(parsed) ==
  LET baseState0 == Obj([id |-> Get(parsed, "id"),
                 symbol |-> Get(parsed, "symbol"),
                 type |-> Get(parsed, "type"),
                 quantity |-> Get(parsed, "quantity"),
                 filledQuantity |-> Get(parsed, "filledQuantity"),
                 remainingQuantity |-> Get(parsed, "remainingQuantity"),
                 status |-> Get(parsed, "status"),
                 modified |-> msToDate(Get(parsed, "modified"))])
      baseState1 == SetIfDefined(baseState0, "price", Get(parsed, "price"))
      baseState2 == SetIfDefined(baseState1, "stopPrice", Get(parsed, "stopPrice"))
      baseState3 == SetIfDefinedDate(baseState2, "created", Get(parsed, "created"))
  IN SetAction(baseState3, parsed)

encodeFill(fill) ==
  IF Get(fill, "side") = Str("BUY")
    THEN Obj([id |-> Get(fill, "id"),
              orderId |-> Get(fill, "orderId"),
              symbol |-> Get(fill, "symbol"),
              side |-> Str("BUY"),
              effect |-> Get(fill, "effect"),
              quantity |-> Get(fill, "quantity"),
              price |-> Get(fill, "price"),
              commission |-> Get(fill, "commission"),
              created |-> dateToMs(Get(fill, "created"))])
    ELSE Obj([id |-> Get(fill, "id"),
              orderId |-> Get(fill, "orderId"),
              symbol |-> Get(fill, "symbol"),
              side |-> Str("SELL"),
              effect |-> Get(fill, "effect"),
              quantity |-> Get(fill, "quantity"),
              price |-> Get(fill, "price"),
              commission |-> Get(fill, "commission"),
              created |-> dateToMs(Get(fill, "created"))])

decodeFill(parsed) ==
  IF Get(parsed, "side") = Str("BUY")
    THEN Obj([side |-> Str("BUY"),
              effect |-> Get(parsed, "effect"),
              id |-> Get(parsed, "id"),
              orderId |-> Get(parsed, "orderId"),
              symbol |-> Get(parsed, "symbol"),
              quantity |-> Get(parsed, "quantity"),
              price |-> Get(parsed, "price"),
              commission |-> Get(parsed, "commission"),
              created |-> msToDate(Get(parsed, "created"))])
    ELSE Obj([side |-> Str("SELL"),
              effect |-> Get(parsed, "effect"),
              id |-> Get(parsed, "id"),
              orderId |-> Get(parsed, "orderId"),
              symbol |-> Get(parsed, "symbol"),
              quantity |-> Get(parsed, "quantity"),
              price |-> Get(parsed, "price"),
              commission |-> Get(parsed, "commission"),
              created |-> msToDate(Get(parsed, "created"))])

encodeLongPosition(pos) ==
  Obj([quantity |-> Get(pos, "quantity"),
       totalCost |-> Get(pos, "totalCost"),
       realisedPnL |-> Get(pos, "realisedPnL"),
       lots |-> Get(pos, "lots"),
       modified |-> dateToMs(Get(pos, "modified"))])

\* decodeLongPosition handing the lots on in reverse order
decodeLongPositionReversed(parsed) ==
  LET lots == Get(parsed, "lots")
  IN Obj([quantity |-> Get(parsed, "quantity"),
          totalCost |-> Get(parsed, "totalCost"),
          realisedPnL |-> Get(parsed, "realisedPnL"),
          lots |-> Arr([i \in 1..Len(lots.v) |-> lots.v[Len(lots.v) + 1 - i]]),
          modified |-> msToDate(Get(parsed, "modified"))])

decodeLongPosition(parsed) ==
  Obj([quantity |-> Get(parsed, "quantity"),
       totalCost |-> Get(parsed, "totalCost"),
       realisedPnL |-> Get(parsed, "realisedPnL"),
       lots |-> Get(parsed, "lots"),
       modified |-> msToDate(Get(parsed, "modified"))])

encodeShortPosition(pos) ==
  Obj([quantity |-> Get(pos, "quantity"),
       totalProceeds |-> Get(pos, "totalProceeds"),
       realisedPnL |-> Get(pos, "realisedPnL"),
       lots |-> Get(pos, "lots"),
       modified |-> dateToMs(Get(pos, "modified"))])

decodeShortPosition(parsed) ==
  Obj([quantity |-> Get(parsed, "quantity"),
       totalProceeds |-> Get(parsed, "totalProceeds"),
       realisedPnL |-> Get(parsed, "realisedPnL"),
       lots |-> Get(parsed, "lots"),
       modified |-> msToDate(Get(parsed, "modified"))])

\* encodePosition writing the entries of the maps without encoding the
\* nested positions
encodePositionShallow(pos) ==
  LET wire0 == Obj([cash |-> Get(pos, "cash"),
                    totalCommission |-> Get(pos, "totalCommission"),
                    realisedPnL |-> Get(pos, "realisedPnL"),
                    modified |-> dateToMs(Get(pos, "modified"))])
      long == Get(pos, "long")
      short == Get(pos, "short")
      wire1 == IF Truthy(long) THEN Put(wire0, "long", ObjFromEntries(long)) ELSE wire0
      wire2 == IF Truthy(short) THEN Put(wire1, "short", ObjFromEntries(short)) ELSE wire1
  IN wire2

encodePosition(pos) ==
  LET wire0 == Obj([cash |-> Get(pos, "cash"),
                    totalCommission |-> Get(pos, "totalCommission"),
                    realisedPnL |-> Get(pos, "realisedPnL"),
                    modified |-> dateToMs(Get(pos, "modified"))])
      long == Get(pos, "long")
      short == Get(pos, "short")
      wire1 == IF Truthy(long)
                 THEN Put(wire0, "long", Obj([k \in DOMAIN long.v |-> encodeLongPosition(long.v[k])]))
                 ELSE wire0
      wire2 == IF Truthy(short)
                 THEN Put(wire1, "short", Obj([k \in DOMAIN short.v |-> encodeShortPosition(short.v[k])]))
                 ELSE wire1
  IN wire2

\* decodePosition building the maps from the wire entries without decoding
\* the nested positions
decodePositionShallow(parsed) ==
  LET result0 == Obj([cash |-> Get(parsed, "cash"),
                      totalCommission |-> Get(parsed, "totalCommission"),
                      realisedPnL |-> Get(parsed, "realisedPnL"),
                      modified |-> msToDate(Get(parsed, "modified"))])
      long == Get(parsed, "long")
      short == Get(parsed, "short")
      result1 == IF Truthy(long) THEN Put(result0, "long", MapFromEntries(long)) ELSE result0
      result2 == IF Truthy(short) THEN Put(result1, "short", MapFromEntries(short)) ELSE result1
  IN result2

decodePosition(parsed) ==
  LET result0 == Obj([cash |-> Get(parsed, "cash"),
                      totalCommission |-> Get(parsed, "totalCommission"),
                      realisedPnL |-> Get(parsed, "realisedPnL"),
                      modified |-> msToDate(Get(parsed, "modified"))])
      long == Get(parsed, "long")
      short == Get(parsed, "short")
      result1 == IF Truthy(long)
                   THEN Put(result0, "long", MapOf([k \in DOMAIN long.v |-> decodeLongPosition(long.v[k])]))
                   ELSE result0
      result2 == IF Truthy(short)
                   THEN Put(result1, "short", MapOf([k \in DOMAIN short.v |-> decodeShortPosition(short.v[k])]))
                   ELSE result1
  IN result2

\* encodeX(r) and decodeX(w) by entity
Encode(e, r) ==
  CASE e = "Asset" -> encodeAsset(r)
    [] e = "MarketSnapshot" -> encodeMarketSnapshot(r)
    [] e = "MarketQuote" -> encodeMarketQuote(r)
    [] e = "MarketBar" -> encodeMarketBar(r)
    [] e = "Order" -> encodeOrder(r)
    [] e = "PartialOrder" -> encodePartialOrder(r)
    [] e = "OrderState" -> encodeOrderState(r)
    [] e = "Fill" -> encodeFill(r)
    [] e = "LongPosition" -> encodeLongPosition(r)
    [] e = "ShortPosition" -> encodeShortPosition(r)
    [] e = "Position" -> encodePosition(r)

Decode(e, w) ==
  CASE e = "Asset" -> decodeAsset(w)
    [] e = "MarketSnapshot" -> decodeMarketSnapshot(w)
    [] e = "MarketQuote" -> decodeMarketQuote(w)
    [] e = "MarketBar" -> decodeMarketBar(w)
    [] e = "Order" -> decodeOrder(w)
    [] e = "PartialOrder" -> decodePartialOrder(w)
    [] e = "OrderState" -> decodeOrderState(w)
    [] e = "Fill" -> decodeFill(w)
    [] e = "LongPosition" -> decodeLongPosition(w)
    [] e = "ShortPosition" -> decodeShortPosition(w)
    [] e = "Position" -> decodePosition(w)

(***************************************************************************)
(* Revision "index" (index.ts): XSchema = XWireSchema.transform(...) and   *)
(* toWireX.  Each transform is the function given to .transform; XSchema   *)
(* is safeParse of the transformed schema.                                 *)
(***************************************************************************)
\* z.number().transform((ms) => new Date(ms))
epochDate(x) ==
  LET res == SafeParse(ZNumber, x)
  IN IF res.ok THEN Valid(NewDate(res.value)) ELSE res

\* date.getTime()
dateToWire(date) == GetTime(date)

\* v ? new Date(v) : undefined
DateIfTruthy(val) == IF Truthy(val) THEN NewDate(val) ELSE Undef

\* { ...o, k: val } : a new object
Spread(o, k, val) == Obj([x \in (DOMAIN o.v) \cup {k} |-> IF x = k THEN val ELSE o.v[x]])

AssetTransform(data) ==
  Obj([symbol |-> Get(data, "symbol"),
       type |-> Get(data, "type"),
       name |-> Get(data, "name"),
       exchange |-> Get(data, "exchange"),
       currency |-> Get(data, "currency"),
       lotSize |-> Get(data, "lotSize"),
       tickSize |-> Get(data, "tickSize"),
       validFrom |-> DateIfTruthy(Get(data, "validFrom")),
       validUntil |-> DateIfTruthy(Get(data, "validUntil"))])

\* AssetSchema.safeParse(x): AssetWireSchema then the transform
AssetSchema(x) ==
  LET res == SafeParse(AssetWireSchema, x)
  IN IF res.ok THEN Valid(AssetTransform(res.value)) ELSE res

toWireAsset(asset) ==
  Obj([symbol |-> Get(asset, "symbol"),
       type |-> Get(asset, "type"),
       name |-> Get(asset, "name"),
       exchange |-> Get(asset, "exchange"),
       currency |-> Get(asset, "currency"),
       lotSize |-> Get(asset, "lotSize"),
       tickSize |-> Get(asset, "tickSize"),
       validFrom |-> OptGetTime(Get(asset, "validFrom")),
       validUntil |-> OptGetTime(Get(asset, "validUntil"))])

MarketSnapshotTransform(data) ==
  Obj([price |-> MapFromEntries(Get(data, "price")),
       timestamp |-> NewDate(Get(data, "timestamp"))])

\* MarketSnapshotSchema.safeParse(x): MarketSnapshotWireSchema then the transform
MarketSnapshotSchema(x) ==
  LET res == SafeParse(MarketSnapshotWireSchema, x)
  IN IF res.ok THEN Valid(MarketSnapshotTransform(res.value)) ELSE res

toWireMarketSnapshot(snapshot) ==
  Obj([price |-> ObjFromEntries(Get(snapshot, "price")),
       timestamp |-> GetTime(Get(snapshot, "timestamp"))])

MarketQuoteTransform(data) ==
  Obj([symbol |-> Get(data, "symbol"),
       price |-> Get(data, "price"),
       volume |-> Get(data, "volume"),
       totalVolume |-> Get(data, "totalVolume"),
       timestamp |-> NewDate(Get(data, "timestamp")),
       bid |-> Get(data, "bid"),
       bidVol |-> Get(data, "bidVol"),
       ask |-> Get(data, "ask"),
       askVol |-> Get(data, "askVol"),
       preClose |-> Get(data, "preClose")])

\* MarketQuoteSchema.safeParse(x): MarketQuoteWireSchema then the transform
MarketQuoteSchema(x) ==
  LET res == SafeParse(MarketQuoteWireSchema, x)
  IN IF res.ok THEN Valid(MarketQuoteTransform(res.value)) ELSE res

toWireMarketQuote(quote) ==
  Obj([symbol |-> Get(quote, "symbol"),
       price |-> Get(quote, "price"),
       volume |-> Get(quote, "volume"),
       totalVolume |-> Get(quote, "totalVolume"),
       timestamp |-> GetTime(Get(quote, "timestamp")),
       bid |-> Get(quote, "bid"),
       bidVol |-> Get(quote, "bidVol"),
       ask |-> Get(quote, "ask"),
       askVol |-> Get(quote, "askVol"),
       preClose |-> Get(quote, "preClose")])

MarketBarTransform(data) ==
  Obj([symbol |-> Get(data, "symbol"),
       open |-> Get(data, "open"),
       high |-> Get(data, "high"),
       low |-> Get(data, "low"),
       close |-> Get(data, "close"),
       volume |-> Get(data, "volume"),
       timestamp |-> NewDate(Get(data, "timestamp")),
       interval |-> Get(data, "interval")])

\* MarketBarSchema.safeParse(x): MarketBarWireSchema then the transform
MarketBarSchema(x) ==
  LET res == SafeParse(MarketBarWireSchema, x)
  IN IF res.ok THEN Valid(MarketBarTransform(res.value)) ELSE res

toWireMarketBar(bar) ==
  Obj([symbol |-> Get(bar, "symbol"),
       open |-> Get(bar, "open"),
       high |-> Get(bar, "high"),
       low |-> Get(bar, "low"),
       close |-> Get(bar, "close"),
       volume |-> Get(bar, "volume"),
       timestamp |-> GetTime(Get(bar, "timestamp")),
       interval |-> Get(bar, "interval")])

OrderTransform(data) ==
  Spread(data, "created", DateIfTruthy(Get(data, "created")))

\* OrderSchema.safeParse(x): OrderWireSchema then the transform
OrderSchema(x) ==
  LET res == SafeParse(OrderWireSchema, x)
  IN IF res.ok THEN Valid(OrderTransform(res.value)) ELSE res

toWireOrder(order) ==
  Spread(order, "created", OptGetTime(Get(order, "created")))

PartialOrderTransform(data) ==
  Spread(data, "created", DateIfTruthy(Get(data, "created")))

\* PartialOrderSchema.safeParse(x): PartialOrderWireSchema then the transform
PartialOrderSchema(x) ==
  LET res == SafeParse(PartialOrderWireSchema, x)
  IN IF res.ok THEN Valid(PartialOrderTransform(res.value)) ELSE res

toWirePartialOrder(order) ==
  Spread(order, "created", OptGetTime(Get(order, "created")))

OrderStateTransform(data) ==
  Spread(Spread(data, "created", DateIfTruthy(Get(data, "created"))),
         "modified", NewDate(Get(data, "modified")))

\* OrderStateSchema.safeParse(x): OrderStateWireSchema then the transform
OrderStateSchema(x) ==
  LET res == SafeParse(OrderStateWireSchema, x)
  IN IF res.ok THEN Valid(OrderStateTransform(res.value)) ELSE res

toWireOrderState(state) ==
  Spread(Spread(state, "created", OptGetTime(Get(state, "created"))),
         "modified", GetTime(Get(state, "modified")))

FillTransform(data) ==
  Spread(data, "created", NewDate(Get(data, "created")))

\* FillSchema.safeParse(x): FillWireSchema then the transform
FillSchema(x) ==
  LET res == SafeParse(FillWireSchema, x)
  IN IF res.ok THEN Valid(FillTransform(res.value)) ELSE res

toWireFill(fill) ==
  Spread(fill, "created", GetTime(Get(fill, "created")))

LongPositionTransform(data) ==
  Obj([quantity |-> Get(data, "quantity"),
       totalCost |-> Get(data, "totalCost"),
       realisedPnL |-> Get(data, "realisedPnL"),
       lots |-> Get(data, "lots"),
       modified |-> NewDate(Get(data, "modified"))])

\* LongPositionSchema.safeParse(x): LongPositionWireSchema then the transform
LongPositionSchema(x) ==
  LET res == SafeParse(LongPositionWireSchema, x)
  IN IF res.ok THEN Valid(LongPositionTransform(res.value)) ELSE res

toWireLongPosition(pos) ==
  Obj([quantity |-> Get(pos, "quantity"),
       totalCost |-> Get(pos, "totalCost"),
       realisedPnL |-> Get(pos, "realisedPnL"),
       lots |-> Get(pos, "lots"),
       modified |-> GetTime(Get(pos, "modified"))])

ShortPositionTransform(data) ==
  Obj([quantity |-> Get(data, "quantity"),
       totalProceeds |-> Get(data, "totalProceeds"),
       realisedPnL |-> Get(data, "realisedPnL"),
       lots |-> Get(data, "lots"),
       modified |-> NewDate(Get(data, "modified"))])

\* ShortPositionSchema.safeParse(x): ShortPositionWireSchema then the transform
ShortPositionSchema(x) ==
  LET res == SafeParse(ShortPositionWireSchema, x)
  IN IF res.ok THEN Valid(ShortPositionTransform(res.value)) ELSE res

toWireShortPosition(pos) ==
  Obj([quantity |-> Get(pos, "quantity"),
       totalProceeds |-> Get(pos, "totalProceeds"),
       realisedPnL |-> Get(pos, "realisedPnL"),
       lots |-> Get(pos, "lots"),
       modified |-> GetTime(Get(pos, "modified"))])

\* PositionTransform leaving out a map that would hold no entry
PositionTransformNonEmpty(data) ==
  LET long == Get(data, "long")
      short == Get(data, "short")
  IN Obj([cash |-> Get(data, "cash"),
          long |-> IF Truthy(long) /\ DOMAIN long.v # {}
                     THEN MapOf([k \in DOMAIN long.v |-> LongPositionSchema(long.v[k]).value])
                     ELSE Undef,
          short |-> IF Truthy(short) /\ DOMAIN short.v # {}
                      THEN MapOf([k \in DOMAIN short.v |-> ShortPositionSchema(short.v[k]).value])
                      ELSE Undef,
          totalCommission |-> Get(data, "totalCommission"),
          realisedPnL |-> Get(data, "realisedPnL"),
          modified |-> NewDate(Get(data, "modified"))])

\* LongPositionSchema.parse(v) and ShortPositionSchema.parse(v) inside the
\* transform run on entries the record schema has already accepted
PositionTransform(data) ==
  LET long == Get(data, "long")
      short == Get(data, "short")
  IN Obj([cash |-> Get(data, "cash"),
          long |-> IF Truthy(long)
                     THEN MapOf([k \in DOMAIN long.v |-> LongPositionSchema(long.v[k]).value])
                     ELSE Undef,
          short |-> IF Truthy(short)
                      THEN MapOf([k \in DOMAIN short.v |-> ShortPositionSchema(short.v[k]).value])
                      ELSE Undef,
          totalCommission |-> Get(data, "totalCommission"),
          realisedPnL |-> Get(data, "realisedPnL"),
          modified |-> NewDate(Get(data, "modified"))])

\* PositionSchema.safeParse(x): PositionWireSchema then the transform
PositionSchema(x) ==
  LET res == SafeParse(PositionWireSchema, x)
  IN IF res.ok THEN Valid(PositionTransform(res.value)) ELSE res

toWirePosition(pos) ==
  LET long == Get(pos, "long")
      short == Get(pos, "short")
  IN Obj([cash |-> Get(pos, "cash"),
          long |-> IF Truthy(long)
                     THEN Obj([k \in DOMAIN long.v |-> toWireLongPosition(long.v[k])])
                     ELSE Undef,
          short |-> IF Truthy(short)
                      THEN Obj([k \in DOMAIN short.v |-> toWireShortPosition(short.v[k])])
                      ELSE Undef,
          totalCommission |-> Get(pos, "totalCommission"),
          realisedPnL |-> Get(pos, "realisedPnL"),
          modified |-> GetTime(Get(pos, "modified"))])

\* XSchema.safeParse(x) and toWireX(r) by entity
Parse(e, x) ==
  CASE e = "Asset" -> AssetSchema(x)
    [] e = "MarketSnapshot" -> MarketSnapshotSchema(x)
    [] e = "MarketQuote" -> MarketQuoteSchema(x)
    [] e = "MarketBar" -> MarketBarSchema(x)
    [] e = "Order" -> OrderSchema(x)
    [] e = "PartialOrder" -> PartialOrderSchema(x)
    [] e = "OrderState" -> OrderStateSchema(x)
    [] e = "Fill" -> FillSchema(x)
    [] e = "LongPosition" -> LongPositionSchema(x)
    [] e = "ShortPosition" -> ShortPositionSchema(x)
    [] e = "Position" -> PositionSchema(x)

ToWire(e, r) ==
  CASE e = "Asset" -> toWireAsset(r)
    [] e = "MarketSnapshot" -> toWireMarketSnapshot(r)
    [] e = "MarketQuote" -> toWireMarketQuote(r)
    [] e = "MarketBar" -> toWireMarketBar(r)
    [] e = "Order" -> toWireOrder(r)
    [] e = "PartialOrder" -> toWirePartialOrder(r)
    [] e = "OrderState" -> toWireOrderState(r)
    [] e = "Fill" -> toWireFill(r)
    [] e = "LongPosition" -> toWireLongPosition(r)
    [] e = "ShortPosition" -> toWireShortPosition(r)
    [] e = "Position" -> toWirePosition(r)

(***************************************************************************)
(* The data model of the entities: for each entity its fields, each with   *)
(* the kind of value it holds and whether it is required.  The inputs of   *)
(* the operations are drawn from it.                                       *)
(***************************************************************************)
MaxTime == 1
MaxLots == 2
MaxCalls == 3

Entities ==
  {"Asset", "MarketSnapshot", "MarketQuote", "MarketBar", "Order", "PartialOrder",
   "OrderState", "Fill", "LongPosition", "ShortPosition", "Position"}

Revs == {"codec", "index"}

Symbols == {"BTCUSDT", "ETHUSDT"}

Intervals == {"1m", "5m", "15m", "30m", "1h", "2h", "4h", "1d", "1w", "1M"}
OrderTypes == {"MARKET", "LIMIT", "STOP", "STOP_LIMIT"}
OrderStatuses == {"PENDING", "OPEN", "PARTIAL", "FILLED", "CANCELLED", "REJECT"}
Sides == {"BUY", "SELL"}
Effects == {"OPEN_LONG", "CLOSE_SHORT", "CLOSE_LONG", "OPEN_SHORT"}

\* the effects that are legal for a side
LegalEffects(side) ==
  IF side = "BUY" THEN {"OPEN_LONG", "CLOSE_SHORT"} ELSE {"CLOSE_LONG", "OPEN_SHORT"}

LegalPair(side, effect) == side \in Sides /\ effect \in LegalEffects(side)

F(name, fkind, req) == [name |-> name, kind |-> fkind, req |-> req]

OrderFields(req) ==
  <<F("id", "string", TRUE), F("side", "side", req), F("effect", "effect", req),
    F("symbol", "string", req), F("type", "otype", req), F("quantity", "number", req),
    F("price", "number", FALSE), F("stopPrice", "number", FALSE), F("created", "time", FALSE)>>

Fields(e) ==
  CASE e = "Asset" ->
         <<F("symbol", "string", TRUE), F("type", "string", FALSE), F("name", "string", FALSE),
           F("exchange", "string", FALSE), F("currency", "string", TRUE),
           F("lotSize", "number", FALSE), F("tickSize", "number", FALSE),
           F("validFrom", "time", FALSE), F("validUntil", "time", FALSE)>>
    [] e = "MarketSnapshot" ->
         <<F("price", "prices", TRUE), F("timestamp", "time", TRUE)>>
    [] e = "MarketQuote" ->
         <<F("symbol", "string", TRUE), F("price", "number", TRUE), F("volume", "number", FALSE),
           F("totalVolume", "number", FALSE), F("timestamp", "time", TRUE),
           F("bid", "number", FALSE), F("bidVol", "number", FALSE), F("ask", "number", FALSE),
           F("askVol", "number", FALSE), F("preClose", "number", FALSE)>>
    [] e = "MarketBar" ->
         <<F("symbol", "string", TRUE), F("open", "number", TRUE), F("high", "number", TRUE),
           F("low", "number", TRUE), F("close", "number", TRUE), F("volume", "number", TRUE),
           F("timestamp", "time", TRUE), F("interval", "interval", TRUE)>>
    [] e = "Order" -> OrderFields(TRUE)
    [] e = "PartialOrder" -> OrderFields(FALSE)
    [] e = "OrderState" ->
         OrderFields(TRUE) \o
         <<F("filledQuantity", "number", TRUE), F("remainingQuantity", "number", TRUE),
           F("status", "status", TRUE), F("modified", "time", TRUE)>>
    [] e = "Fill" ->
         <<F("id", "string", TRUE), F("orderId", "string", TRUE), F("symbol", "string", TRUE),
           F("side", "side", TRUE), F("effect", "effect", TRUE), F("quantity", "number", TRUE),
           F("price", "number", TRUE), F("commission", "number", TRUE), F("created", "time", TRUE)>>
    [] e = "LongPosition" ->
         <<F("quantity", "number", TRUE), F("totalCost", "number", TRUE),
           F("realisedPnL", "number", TRUE), F("lots", "longlots", TRUE),
           F("modified", "time", TRUE)>>
    [] e = "ShortPosition" ->
         <<F("quantity", "number", TRUE), F("totalProceeds", "number", TRUE),
           F("realisedPnL", "number", TRUE), F("lots", "shortlots", TRUE),
           F("modified", "time", TRUE)>>
    [] e = "Position" ->
         <<F("cash", "number", TRUE), F("long", "longs", FALSE), F("short", "shorts", FALSE),
           F("totalCommission", "number", TRUE), F("realisedPnL", "number", TRUE),
           F("modified", "time", TRUE)>>

FieldNames(e) == {Fields(e)[i].name : i \in DOMAIN Fields(e)}
Required(e) == {Fields(e)[i].name : i \in {j \in DOMAIN Fields(e) : Fields(e)[j].req}}
Optional(e) == FieldNames(e) \ Required(e)
FieldOf(e, name) == Fields(e)[CHOOSE i \in DOMAIN Fields(e) : Fields(e)[i].name = name]
TimeFields(e) == {n \in FieldNames(e) : FieldOf(e, n).kind = "time"}

(***************************************************************************)
(* Sample values.  A sample is fixed by its parameters: n scales the       *)
(* numbers (field i holds n * i, so that fields differ), t is the          *)
(* timestamp (the second timestamp field of an entity holds -t), keep the  *)
(* optional fields present, keys and skeys the keys of the maps, lots the  *)
(* number of lots, tok the enumeration tokens that differ from the first.  *)
(* mode "wire" gives numbers and plain objects, mode "runtime" gives       *)
(* instants and maps.                                                      *)
(***************************************************************************)
SecondTimes == {"validUntil", "modified"}

TimeValue(mode, ms) == IF mode = "wire" THEN Num(ms) ELSE DateOf(ms)
Container(mode, f) == IF mode = "wire" THEN Obj(f) ELSE MapOf(f)
KeyIndex(k) == IF k = "BTCUSDT" THEN 1 ELSE 2

DefaultToken(fkind) ==
  CASE fkind = "side" -> "BUY"
    [] fkind = "effect" -> "OPEN_LONG"
    [] fkind = "otype" -> "MARKET"
    [] fkind = "status" -> "PENDING"
    [] fkind = "interval" -> "1m"

RECURSIVE Sample(_, _, _)
FieldValue(f, i, mode, p) ==
  CASE f.kind = "string" -> Str(f.name)
    [] f.kind = "number" -> Num(p.n * i)
    [] f.kind = "time" -> TimeValue(mode, IF f.name \in SecondTimes THEN 0 - p.t ELSE p.t)
    [] f.kind \in {"side", "effect", "otype", "status", "interval"} ->
         Str(IF f.name \in DOMAIN p.tok THEN p.tok[f.name] ELSE DefaultToken(f.kind))
    [] f.kind = "prices" -> Container(mode, [k \in p.keys |-> Num(p.n * KeyIndex(k))])
    [] f.kind = "longlots" ->
         Arr([j \in 1..p.lots |->
                Obj([quantity |-> Num(p.n * j), price |-> Num(j), totalCost |-> Num(p.n * j + 1)])])
    [] f.kind = "shortlots" ->
         Arr([j \in 1..p.lots |->
                Obj([quantity |-> Num(p.n * j), price |-> Num(j), totalProceeds |-> Num(p.n * j + 1)])])
    [] f.kind = "longs" ->
         Container(mode, [k \in p.keys |-> Sample("LongPosition", mode, [p EXCEPT !.n = KeyIndex(k)])])
    [] f.kind = "shorts" ->
         Container(mode, [k \in p.skeys |-> Sample("ShortPosition", mode, [p EXCEPT !.n = 0 - KeyIndex(k)])])

Sample(e, mode, p) ==
  LET fs == Fields(e)
      present == {i \in DOMAIN fs : fs[i].req \/ fs[i].name \in p.keep}
      at(name) == CHOOSE i \in present : fs[i].name = name
  IN Obj([name \in {fs[i].name : i \in present} |-> FieldValue(fs[at(name)], at(name), mode, p)])

NumVariants == {0 - 1, 0, 1}
Times == (0 - MaxTime)..MaxTime
LotLens == 0..MaxLots

Profiles(e) ==
  {{}, Optional(e)} \cup {{f} : f \in Optional(e)} \cup {Optional(e) \ {f} : f \in Optional(e)}

NoTok == [x \in {} |-> ""]

\* the enumeration fields of an entity, each with every token of its set;
\* side and effect are set together, to one of the four legal pairs
LegalToks(e) ==
  LET names == FieldNames(e)
      one(name, tokens) == IF name \in names THEN {[x \in {name} |-> tk] : tk \in tokens} ELSE {}
      pairs == IF "side" \in names
                 THEN {[x \in {"side", "effect"} |-> IF x = "side" THEN sd ELSE ef] :
                         <<sd, ef>> \in {q \in Sides \X Effects : LegalPair(q[1], q[2])}}
                 ELSE {}
  IN {NoTok} \cup pairs \cup one("type", OrderTypes) \cup one("status", OrderStatuses)
       \cup one("interval", Intervals)

BaseParam(e) ==
  [n |-> 1, t |-> 1, keep |-> Optional(e), keys |-> Symbols, skeys |-> {"ETHUSDT"},
   lots |-> 1, tok |-> NoTok]

ValidParams(e) ==
  {[BaseParam(e) EXCEPT !.n = n, !.t = t, !.keep = keep] :
     n \in NumVariants, t \in Times, keep \in Profiles(e)}
  \cup {[BaseParam(e) EXCEPT !.keys = ks, !.skeys = ss, !.lots = l] :
          ks \in SUBSET Symbols, ss \in SUBSET Symbols, l \in LotLens}
  \cup {[BaseParam(e) EXCEPT !.tok = tk] : tk \in LegalToks(e)}

\* wire values that follow the data model, and the runtime values that do
ValidWires(e) == {Sample(e, "wire", p) : p \in ValidParams(e)}
ValidRuntimes(e) == {Sample(e, "runtime", p) : p \in ValidParams(e)}

(***************************************************************************)
(* Wire values that break the data model in one place: one field missing,  *)
(* or one field holding a value of the wrong type or a token outside its   *)
(* set; and values that are no object at all.                              *)
(***************************************************************************)
BadTokens(fkind) ==
  CASE fkind = "side" -> {"HOLD", "buy"}
    [] fkind = "effect" -> {"CLOSE", "open_long"}
    [] fkind = "otype" -> {"market", "Limit", "STOP-LIMIT"}
    [] fkind = "status" -> {"DONE", "REJECTED", "open"}
    [] fkind = "interval" -> {"3h", "1H", "1D", "1min"}

WrongValues(fkind) ==
  CASE fkind = "string" -> {Num(1), Null}
    [] fkind \in {"number", "time"} -> {Str("100"), Null}
    [] fkind \in {"side", "effect", "otype", "status", "interval"} ->
         {Str(tk) : tk \in BadTokens(fkind)} \cup {Num(1)}
    [] fkind = "prices" -> {Arr(<<>>), Obj([BTCUSDT |-> Str("50000")])}
    [] fkind \in {"longlots", "shortlots"} ->
         {Obj(EmptyFcn), Arr(<<Obj([quantity |-> Num(1), price |-> Num(1)])>>)}
    [] fkind \in {"longs", "shorts"} ->
         {Arr(<<>>), Obj([BTCUSDT |-> Obj([quantity |-> Num(1)])])}

Without(o, k) == Obj([x \in (DOMAIN o.v) \ {k} |-> o.v[x]])

BrokenWires(e) ==
  LET base == Sample(e, "wire", BaseParam(e))
      bare == Sample(e, "wire", [BaseParam(e) EXCEPT !.keep = {}])
  IN {Without(base, k) : k \in Required(e)}
     \cup UNION {{Put(base, k, w) : w \in WrongValues(FieldOf(e, k).kind)} : k \in FieldNames(e)}
     \cup UNION {{Put(bare, k, w) : w \in WrongValues(FieldOf(e, k).kind)} : k \in Optional(e)}
     \cup {Null, Str("x"), Num(1), Arr(<<>>), Obj(EmptyFcn)}

\* every pairing of a side token with an effect token, legal or not, in a
\* value whose other fields follow the data model
PairedValues(e, mode) ==
  IF "side" \in FieldNames(e)
    THEN {Sample(e, mode, [BaseParam(e) EXCEPT !.tok = [x \in {"side", "effect"} |->
                                                         IF x = "side" THEN sd ELSE ef]]) :
            sd \in Sides, ef \in Effects}
    ELSE {}

(***************************************************************************)
(* Further values: numbers with a fractional part, wire values that break  *)
(* the data model in two places or in every place, values of other shapes, *)
(* wire values with keys no schema declares, and a PartialOrder with every *)
(* subset of its optional fields.                                          *)
(***************************************************************************)
Halves == {0 - 3, 0 - 1, 1, 3}

NumberFields(e) == {n \in FieldNames(e) : FieldOf(e, n).kind = "number"}

\* one number or timestamp of a wire value holds a fraction
FractionalWires(e) ==
  LET base == Sample(e, "wire", BaseParam(e))
  IN UNION {{Put(base, k, Half(h)) : h \in Halves} : k \in NumberFields(e) \cup TimeFields(e)}

\* one number of a runtime value holds a fraction (an instant never does)
FractionalRuntimes(e) ==
  LET base == Sample(e, "runtime", BaseParam(e))
  IN UNION {{Put(base, k, Half(h)) : h \in Halves} : k \in NumberFields(e)}

\* two fields null, two required fields missing, every field null, and an
\* illegal side / effect pair beside a number given as a string
DoublyBroken(e) ==
  LET base == Sample(e, "wire", BaseParam(e))
      names == FieldNames(e)
      illegal == Put(Put(base, "side", Str("BUY")), "effect", Str("CLOSE_LONG"))
  IN {Put(Put(base, k1, Null), k2, Null) : k1 \in names, k2 \in names}
     \cup {Without(Without(base, k1), k2) : k1 \in Required(e), k2 \in Required(e)}
     \cup {Obj([k \in names |-> Null])}
     \cup (IF "side" \in names
            THEN {Put(illegal, k, Str("100")) : k \in NumberFields(e)}
            ELSE {})

\* values that are no plain object
OtherShapes == {Undef, DateOf(0), MapOf(EmptyFcn), Arr(<<Num(1)>>)}

\* a value that follows the data model, with keys the schema does not declare
ExtraWires(e) ==
  LET base == Sample(e, "wire", BaseParam(e))
      bare == Sample(e, "wire", [BaseParam(e) EXCEPT !.keep = {}])
  IN {Put(w, "extra", x) : w \in {base, bare}, x \in {Str("x"), Num(0), Null}}
     \cup {Put(Put(w, "extra", Str("x")), "note", Obj(EmptyFcn)) : w \in {base, bare}}

\* a PartialOrder with every subset of its optional fields, created 0 or 1
PartialSubsets(e, mode) ==
  IF e = "PartialOrder"
    THEN {Sample(e, mode, [BaseParam(e) EXCEPT !.keep = fs, !.t = t]) :
            fs \in SUBSET Optional(e), t \in {0, 1}}
    ELSE {}

\* one timestamp of a wire value is an integer beyond the range of Date
BeyondWires(e) ==
  LET base == Sample(e, "wire", BaseParam(e))
  IN UNION {{Put(base, k, Beyond(sign)) : sign \in {0 - 1, 1}} : k \in TimeFields(e)}

\* a runtime value that follows the data model and carries further
\* properties
ExtraRuntimes(e) ==
  LET base == Sample(e, "runtime", BaseParam(e))
      bare == Sample(e, "runtime", [BaseParam(e) EXCEPT !.keep = {}])
  IN {Put(base, "extra", Str("x")), Put(Put(bare, "extra", Num(0)), "note", Obj(EmptyFcn))}

WireInputs(e) ==
  ValidWires(e) \cup BrokenWires(e) \cup PairedValues(e, "wire")
    \cup FractionalWires(e) \cup DoublyBroken(e) \cup OtherShapes \cup ExtraWires(e)
    \cup PartialSubsets(e, "wire") \cup BeyondWires(e)

RuntimeInputs(e) ==
  ValidRuntimes(e) \cup PairedValues(e, "runtime") \cup FractionalRuntimes(e)
    \cup PartialSubsets(e, "runtime") \cup ExtraRuntimes(e)

(***************************************************************************)
(* The state: the entity and revision under test, the value handed in      *)
(* (kind says whether it is a wire value or a runtime value), and the log  *)
(* of the calls made so far, each with its argument and its result.  Each  *)
(* call takes the value the previous call produced.                        *)
(*   kind = "wire"     a wire value (the input, or the result of encoding) *)
(*   kind = "runtime"  a runtime value (the input, or the result of decode)*)
(*   kind = "checked"  the result of XWireSchema.safeParse                 *)
(*   kind = "parsed"   the result of XSchema.safeParse                     *)
(***************************************************************************)
Call(op, arg, res) == [op |-> op, arg |-> arg, res |-> res]

Current == IF log = <<>> THEN input ELSE log[Len(log)].res

Init ==
  /\ entity \in Entities
  /\ rev \in Revs
  /\ kind \in {"wire", "runtime"}
  /\ input \in (IF kind = "wire" THEN WireInputs(entity) ELSE RuntimeInputs(entity))
  /\ log = <<>>
  /\ heap = <<>>
  /\ calls = <<>>
  /\ clock = 0

\* XWireSchema.safeParse(w)
Validate ==
  /\ kind = "wire"
  /\ Len(log) < MaxCalls
  /\ log' = Append(log, Call("validate", Current, SafeParse(WireSchema(entity), Current)))
  /\ kind' = "checked"
  /\ UNCHANGED <<entity, rev, input, heap, calls, clock>>

\* decodeX(XWireSchema.parse(w)): decoding the validated view
DecodeChecked ==
  /\ rev = "codec"
  /\ kind = "checked"
  /\ Current.ok
  /\ Len(log) < MaxCalls
  /\ log' = Append(log, Call("decode", Current.value, Decode(entity, Current.value)))
  /\ kind' = "runtime"
  /\ UNCHANGED <<entity, rev, input, heap, calls, clock>>

\* decodeX(encodeX(r)): decoding what encodeX returned
DecodeEncoded ==
  /\ rev = "codec"
  /\ kind = "wire"
  /\ log # <<>>
  /\ Len(log) < MaxCalls
  /\ log' = Append(log, Call("decode", Current, Decode(entity, Current)))
  /\ kind' = "runtime"
  /\ UNCHANGED <<entity, rev, input, heap, calls, clock>>

\* encodeX(r)
EncodeRuntime ==
  /\ rev = "codec"
  /\ kind = "runtime"
  /\ Len(log) < MaxCalls
  /\ log' = Append(log, Call("encode", Current, Encode(entity, Current)))
  /\ kind' = "wire"
  /\ UNCHANGED <<entity, rev, input, heap, calls, clock>>

\* XSchema.safeParse(w)
ParseWire ==
  /\ rev = "index"
  /\ kind = "wire"
  /\ Len(log) < MaxCalls
  /\ log' = Append(log, Call("parse", Current, Parse(entity, Current)))
  /\ kind' = "parsed"
  /\ UNCHANGED <<entity, rev, input, heap, calls, clock>>

\* toWireX(XSchema.parse(w))
ToWireParsed ==
  /\ rev = "index"
  /\ kind = "parsed"
  /\ Current.ok
  /\ Len(log) < MaxCalls
  /\ log' = Append(log, Call("toWire", Current.value, ToWire(entity, Current.value)))
  /\ kind' = "wire"
  /\ UNCHANGED <<entity, rev, input, heap, calls, clock>>

\* XWireSchema.safeParse(XWireSchema.parse(w)): validating the view again
Revalidate ==
  /\ kind = "checked"
  /\ Current.ok
  /\ Len(log) < MaxCalls
  /\ log' = Append(log, Call("validate", Current.value, SafeParse(WireSchema(entity), Current.value)))
  /\ kind' = "checked"
  /\ UNCHANGED <<entity, rev, input, heap, calls, clock>>

\* toWireX(r)
ToWireRuntime ==
  /\ rev = "index"
  /\ kind = "runtime"
  /\ Len(log) < MaxCalls
  /\ log' = Append(log, Call("toWire", Current, ToWire(entity, Current)))
  /\ kind' = "wire"
  /\ UNCHANGED <<entity, rev, input, heap, calls, clock>>

Next ==
  \/ Validate
  \/ DecodeChecked
  \/ DecodeEncoded
  \/ EncodeRuntime
  \/ ParseWire
  \/ ToWireParsed
  \/ ToWireRuntime
  \/ Revalidate

Spec == Init /\ [][Next]_vars

(***************************************************************************)
(* What the log holds: the decodings (wire value in, runtime value out),   *)
(* the encodings (runtime value in, wire value out) and the validations.   *)
(***************************************************************************)
Decodings ==
  {[w |-> log[i].arg, r |-> log[i].res] : i \in {j \in DOMAIN log : log[j].op = "decode"}}
  \cup {[w |-> log[i].arg, r |-> log[i].res.value] :
          i \in {j \in DOMAIN log : log[j].op = "parse" /\ log[j].res.ok}}

Encodings ==
  {[r |-> log[i].arg, w |-> log[i].res] : i \in {j \in DOMAIN log : log[j].op \in {"encode", "toWire"}}}

Validations ==
  {[w |-> log[i].arg, ok |-> log[i].res.ok] :
     i \in {j \in DOMAIN log : log[j].op \in {"validate", "parse"}}}

(***************************************************************************)
(* The data model as a predicate on wire values, written from the field    *)
(* table: what a wire value has to look like.                              *)
(***************************************************************************)
\* the primitive type a field of this kind holds
PrimitiveOk(fkind, val) ==
  CASE fkind \in {"string", "side", "effect", "otype", "status", "interval"} -> val.t = "string"
    [] fkind \in {"number", "time"} -> val.t = "number" /\ "nan" \notin DOMAIN val
    [] fkind \in {"prices", "longs", "shorts"} -> val.t = "object"
    [] fkind \in {"longlots", "shortlots"} -> val.t = "array"

TokensOf(fkind) ==
  CASE fkind = "side" -> Sides
    [] fkind = "effect" -> Effects
    [] fkind = "otype" -> OrderTypes
    [] fkind = "status" -> OrderStatuses
    [] fkind = "interval" -> Intervals

LotConforms(val, total) ==
  /\ val.t = "object"
  /\ \A k \in {"quantity", "price", total} : k \in DOMAIN val.v /\ val.v[k].t = "number"

RECURSIVE Conforms(_, _)
KindConforms(fkind, val) ==
  /\ PrimitiveOk(fkind, val)
  /\ CASE fkind \in {"side", "effect", "otype", "status", "interval"} -> val.v \in TokensOf(fkind)
       [] fkind = "prices" -> \A k \in DOMAIN val.v : val.v[k].t = "number"
       [] fkind = "longlots" -> \A j \in DOMAIN val.v : LotConforms(val.v[j], "totalCost")
       [] fkind = "shortlots" -> \A j \in DOMAIN val.v : LotConforms(val.v[j], "totalProceeds")
       [] fkind = "longs" -> \A k \in DOMAIN val.v : Conforms("LongPosition", val.v[k])
       [] fkind = "shorts" -> \A k \in DOMAIN val.v : Conforms("ShortPosition", val.v[k])
       [] OTHER -> TRUE

\* the fields an object holds: a property whose value is undefined counts
\* as absent, as it does for JSON.stringify and for the optional schemas
Present(o) == {k \in DOMAIN o.v : o.v[k] # Undef}

\* every required field present, every present field of its kind
Conforms(e, w) ==
  /\ w.t = "object"
  /\ \A i \in DOMAIN Fields(e) :
       LET f == Fields(e)[i]
       IN IF f.name \in Present(w) THEN KindConforms(f.kind, w.v[f.name]) ELSE ~f.req

\* the side and effect of a value form one of the four legal pairs
HasLegalPair(x) ==
  /\ x.t = "object"
  /\ Get(x, "side").t = "string"
  /\ Get(x, "effect").t = "string"
  /\ LegalPair(Get(x, "side").v, Get(x, "effect").v)

ActionEntities == {"Order", "OrderState", "Fill"}

\* an object without the properties whose value is undefined: what
\* JSON.stringify writes, and what the tests' toEqual compares
Defined(o) == Obj([k \in Present(o) |-> o.v[k]])

(***************************************************************************)
(* Objects with identity.  Every object, Map, array and Date is a cell of  *)
(* the heap, and a cell holds primitives and references to other cells.    *)
(* A function reads its argument as a value whose objects, Maps, arrays    *)
(* and Dates each carry the identity of their cell (id).  What the         *)
(* function builds with an object literal, new Map, new Date or            *)
(* Object.fromEntries carries none, and gets a cell of its own when the    *)
(* function returns; what it hands on (lots: pos.lots) keeps its identity, *)
(* and an assignment to a property of an object that has a cell (Put       *)
(* keeps the id) is written to that cell.  clock is the time of the        *)
(* environment, what new Date() and Date.now() give; it is later at every  *)
(* call, and no function of the source reads it.  Several callers, each    *)
(* with an argument of its own, call in any order, and a caller can        *)
(* afterwards change a lots array of its argument or of its result.        *)
(***************************************************************************)
Ref(id) == [t |-> "ref", id |-> id]

\* what has identity and can be changed in place
Mutable == {"object", "Map", "array", "Date"}

\* the identity a newly created object gets: one that is not in use
NextId(h) == IF DOMAIN h = {} THEN 1 ELSE 1 + CHOOSE i \in DOMAIN h : \A j \in DOMAIN h : j <= i

\* the value a reference leads to, every object in it with its identity
RECURSIVE Load(_, _)
Load(h, x) ==
  IF x.t # "ref" THEN x
  ELSE LET c == h[x.id]
           kids == IF c.t = "Date" THEN c.v ELSE [k \in DOMAIN c.v |-> Load(h, c.v[k])]
       IN [id |-> x.id] @@ [c EXCEPT !.v = kids]

\* what a value holds, whichever objects hold it
RECURSIVE Strip(_)
Strip(x) ==
  IF x.t \notin Mutable THEN x
  ELSE LET kids == IF x.t = "Date" THEN x.v ELSE [k \in DOMAIN x.v |-> Strip(x.v[k])]
       IN [f \in DOMAIN x \ {"id"} |-> IF f = "v" THEN kids ELSE x[f]]

Deref(h, x) == Strip(Load(h, x))

\* the keys of an object, a Map or an array, one after the other
RECURSIVE KeySeq(_)
KeySeq(S) == IF S = {} THEN <<>> ELSE LET k == CHOOSE j \in S : TRUE IN <<k>> \o KeySeq(S \ {k})

\* how many objects of a value have no identity yet, the value's first i
\* keys taken
RECURSIVE Count(_), CountUpTo(_, _, _)
CountUpTo(x, ks, i) == IF i = 0 THEN 0 ELSE CountUpTo(x, ks, i - 1) + Count(x.v[ks[i]])

Count(x) ==
  IF x.t \notin Mutable THEN 0
  ELSE (IF "id" \in DOMAIN x THEN 0 ELSE 1)
       + (IF x.t = "Date" THEN 0 ELSE CountUpTo(x, KeySeq(DOMAIN x.v), Cardinality(DOMAIN x.v)))

\* the reference to a value whose new objects get the identities after b:
\* an object that has an identity keeps it
RefOf(x, b) ==
  IF x.t \notin Mutable THEN x
  ELSE IF "id" \in DOMAIN x THEN Ref(x.id) ELSE Ref(b + Count(x))

\* the cells of a value: every object of it under its identity
RECURSIVE Cells(_, _), CellsUpTo(_, _, _, _)
CellsUpTo(x, ks, b, i) ==
  IF i = 0 THEN <<>>
  ELSE Cells(x.v[ks[i]], b + CountUpTo(x, ks, i - 1)) @@ CellsUpTo(x, ks, b, i - 1)

Cells(x, b) ==
  IF x.t \notin Mutable THEN <<>>
  ELSE IF x.t = "Date" THEN RefOf(x, b).id :> [f \in DOMAIN x \ {"id"} |-> x[f]]
  ELSE LET ks == KeySeq(DOMAIN x.v)
           at(k) == CHOOSE i \in DOMAIN ks : ks[i] = k
           kids == [k \in DOMAIN x.v |-> RefOf(x.v[k], b + CountUpTo(x, ks, at(k) - 1))]
       IN (RefOf(x, b).id :> [t |-> x.t, v |-> kids]) @@ CellsUpTo(x, ks, b, Len(ks))

\* the heap after a function returned the value: an object without an
\* identity gets a new cell; an object with one is written to its cell
Commit(h, x) ==
  LET b == NextId(h) - 1
  IN [heap |-> Cells(x, b) @@ h, val |-> RefOf(x, b)]

\* the cells a value leads to
RECURSIVE Reach(_, _)
Reach(h, x) ==
  IF x.t # "ref" THEN {}
  ELSE {x.id} \cup (IF h[x.id].t = "Date" THEN {}
                    ELSE UNION {Reach(h, h[x.id].v[k]) : k \in DOMAIN h[x.id].v})

\* the function each operation names
Apply(op, e, x) ==
  CASE op = "validate" -> SafeParse(WireSchema(e), x).value
    [] op = "parse" -> Parse(e, x).value
    [] op = "decode" -> Decode(e, x)
    [] op = "encode" -> Encode(e, x)
    [] op = "toWire" -> ToWire(e, x)

\* a call on the heap: the function reads its argument through the
\* reference it is given, and what it returns is on the heap afterwards
HeapCall(h, op, e, x) == Commit(h, Apply(op, e, Load(h, x)))

Callers == {"a", "b"}

\* the operations a revision has for a wire value and for a runtime value
OpsFor(r, k) ==
  IF k = "wire"
    THEN (IF r = "codec" THEN {"validate", "decode"} ELSE {"validate", "parse"})
    ELSE (IF r = "codec" THEN {"encode"} ELSE {"toWire"})

KindAfter(op) == IF op \in {"decode", "parse"} THEN "runtime" ELSE "wire"

\* an argument of a caller: the most lots, one position under long and
\* one under short; s sets its numbers and instants
HeapInput(e, mode, s) ==
  Sample(e, mode, [BaseParam(e) EXCEPT !.lots = MaxLots, !.keys = {"BTCUSDT"}, !.n = s, !.t = s])

\* a lot a caller puts into an array
OtherLot == Obj([quantity |-> Num(9), price |-> Num(9), totalCost |-> Num(9)])

\* the part of the heap a value leads to
Own(h, x) == [i \in Reach(h, x) |-> h[i]]

Idle(x, k, l) ==
  [cur |-> x, kind |-> k, lot |-> l, op |-> "none", arg |-> Undef, res |-> Undef,
   argWas |-> Undef, resWas |-> Undef, aloneWas |-> Undef, n |-> 0, at |-> 0,
   hit |-> "none", argAt |-> Undef, resAt |-> Undef]

\* each caller holds a value of its own and a lot of its own: the first a
\* wire value, the second a wire or a runtime value that holds the same as
\* the first's or differs from it in every number and instant
HeapInit ==
  /\ entity \in Entities
  /\ rev \in Revs
  /\ kind = "heap"
  /\ input = Undef
  /\ log = <<>>
  /\ clock = 0
  /\ \E ka \in {"wire"}, kb \in {"wire", "runtime"}, s \in {1, 0 - 1} :
       \E sa \in {Commit(<<>>, HeapInput(entity, ka, 1))} :
         \E la \in {Commit(sa.heap, OtherLot)} :
           \E sb \in {Commit(la.heap, HeapInput(entity, kb, s))} :
             \E lb \in {Commit(sb.heap, OtherLot)} :
               /\ heap = lb.heap
               /\ calls = [c \in Callers |-> IF c = "a" THEN Idle(sa.val, ka, la.val)
                                              ELSE Idle(sb.val, kb, lb.val)]

\* a caller calls validate, decode or encode on the value it holds; alone
\* is the same call on a heap that holds the argument only
Invoke ==
  \E c \in Callers :
    /\ calls[c].hit = "none"
    /\ calls[c].cur # Undef
    /\ calls["a"].n + calls["b"].n < MaxCalls
    /\ \E op \in OpsFor(rev, calls[c].kind) :
         \E x \in {calls[c].cur} :
          \E out \in {HeapCall(heap, op, entity, x)} :
           \E alone \in {HeapCall(Own(heap, x), op, entity, x)} :
            /\ heap' = out.heap
            /\ calls' = [calls EXCEPT ![c] =
                 [@ EXCEPT !.cur = out.val, !.kind = KindAfter(op), !.op = op, !.arg = x,
                           !.res = out.val, !.argWas = Deref(heap, x),
                           !.resWas = Deref(out.heap, out.val),
                           !.aloneWas = Deref(alone.heap, alone.val), !.n = @ + 1,
                           !.at = 1 + calls["a"].n + calls["b"].n]]
    /\ clock' = clock + 1
    /\ UNCHANGED <<entity, rev, kind, input, log>>

\* after a call, the caller appends its lot to a lots array of the
\* argument or of the result, or puts it in the place of the first lot
Mutate ==
  \E c \in Callers :
    /\ calls[c].n > 0
    /\ calls[c].hit = "none"
    /\ \E argNow \in {Deref(heap, calls[c].arg)}, resNow \in {Deref(heap, calls[c].res)} :
         \E side \in {"arg", "res"}, how \in {"push", "replace"} :
           \E id \in Reach(heap, IF side = "arg" THEN calls[c].arg ELSE calls[c].res) :
             /\ heap[id].t = "array"
             /\ how = "replace" => heap[id].v # <<>>
             /\ heap' = [heap EXCEPT ![id].v = IF how = "push" THEN Append(@, calls[c].lot)
                                                ELSE [@ EXCEPT ![1] = calls[c].lot]]
             /\ calls' = [calls EXCEPT ![c] =
                  [@ EXCEPT !.hit = side, !.argAt = argNow, !.resAt = resNow]]
    /\ UNCHANGED <<entity, rev, kind, input, log, clock>>

HeapNext ==
  \/ Invoke
  \/ Mutate

HeapSpec == HeapInit /\ [][HeapNext]_vars

(***************************************************************************)
(* Claims.                                                                 *)
(***************************************************************************)

\* C1: in the codec revision, decoding what encodeX returned for a runtime
\* value of the entity's type (one that holds no property the entity does
\* not declare) gives that runtime value back, for every entity: the same
\* fields present, the same scalars, instants and map entries.
C1_DecodeEncode ==
  \A i \in DOMAIN log :
    (/\ i > 1 /\ log[i].op = "decode" /\ log[i - 1].op = "encode"
     /\ DOMAIN log[i - 1].arg.v \subseteq FieldNames(entity))
      => log[i].res = log[i - 1].arg

\* C1 witness: an Asset with both validity instants was encoded and decoded.
C1_Witness ==
  /\ entity = "Asset"
  /\ kind = "runtime"
  /\ Len(log) = 2
  /\ log[1].op = "encode"
  /\ log[2].op = "decode"
  /\ {"validFrom", "validUntil"} \subseteq DOMAIN input.v
  /\ input.v["validFrom"] = DateOf(0)

\* C2: in index.ts, toWireX(XSchema.parse(w)) is structurally equal to w for
\* every wire value w that passes validation and holds only schema fields.
\* Properties the result holds with the value undefined are counted as
\* absent, which is the weakest reading of "structurally equal".
C2_WireRoundTrip ==
  \A i \in DOMAIN log :
    (i > 1 /\ log[i].op = "toWire" /\ log[i - 1].op = "parse" /\ log[i - 1].res.ok)
      => Defined(log[i].res) = Defined(log[i - 1].arg)

\* C3: every timestamp field present in a wire value decodes to the instant
\* with that millisecond count, and every instant of a runtime value encodes
\* to its millisecond count under the same field, zero and negative counts
\* included.
C3_TimestampFidelity ==
  /\ \A d \in Decodings : \A f \in TimeFields(entity) :
       (d.w.t = "object" /\ f \in Present(d.w)) => Get(d.r, f) = DateOf(d.w.v[f].v)
  /\ \A c \in Encodings : \A f \in TimeFields(entity) :
       Get(c.r, f).t = "Date" => Get(c.w, f) = Num(c.r.v[f].v)

\* C4: validation of Order, OrderState and Fill succeeds only for the four
\* legal (side, effect) pairs, and accepts each of them when the value
\* follows the data model otherwise.
C4_Discriminant ==
  \A c \in Validations :
    entity \in ActionEntities =>
      /\ c.ok => HasLegalPair(c.w)
      /\ (Conforms(entity, c.w) /\ HasLegalPair(c.w)) => c.ok

\* C4 witness: an OrderState with side SELL and effect OPEN_LONG, every
\* other field valid, was rejected.
C4_Witness ==
  /\ entity = "OrderState"
  /\ \E c \in Validations :
       /\ Conforms(entity, c.w)
       /\ Get(c.w, "side") = Str("SELL")
       /\ Get(c.w, "effect") = Str("OPEN_LONG")
       /\ ~c.ok

\* C5: validation of a PartialOrder that holds both side and effect accepts
\* only the four legal pairs.
C5_PartialOrderPair ==
  \A c \in Validations :
    (entity = "PartialOrder" /\ c.ok /\ {"side", "effect"} \subseteq Present(c.w))
      => HasLegalPair(c.w)

\* C6: the wire object an encode function returns for an Order, OrderState
\* or Fill whose side is BUY or SELL and whose effect is one of the four
\* tokens never holds an illegal pair.
C6_EncodeLegalPair ==
  \A c \in Encodings :
    (/\ entity \in ActionEntities
     /\ Get(c.r, "side").t = "string" /\ Get(c.r, "side").v \in Sides
     /\ Get(c.r, "effect").t = "string" /\ Get(c.r, "effect").v \in Effects)
      => HasLegalPair(c.w)

\* the entries of two containers are the same: same keys, same values
SameEntries(a, b) == DOMAIN a.v = DOMAIN b.v /\ \A k \in DOMAIN a.v : a.v[k] = b.v[k]

\* C7: decoding a valid wire snapshot gives a map with the keys and values
\* of the wire price object, and encoding a snapshot gives an object with
\* the keys and values of the map.
C7_MapFidelity ==
  entity = "MarketSnapshot" =>
    /\ \A d \in Decodings :
         LET m == Get(d.r, "price")
         IN m.t = "Map" /\ SameEntries(m, Get(d.w, "price"))
    /\ \A c \in Encodings :
         LET o == Get(c.w, "price")
         IN o.t = "object" /\ SameEntries(o, Get(c.r, "price"))

\* C7 witness: a snapshot with two prices was decoded and encoded again.
C7_Witness ==
  /\ entity = "MarketSnapshot"
  /\ \E d \in Decodings : DOMAIN Get(d.w, "price").v = Symbols
  /\ \E c \in Encodings : DOMAIN Get(c.r, "price").v = Symbols

\* a nested position and its wire form agree: modified is the instant of
\* the wire number, every other field is the same
NestedAgree(r, w) ==
  /\ DOMAIN r.v = DOMAIN w.v
  /\ r.v["modified"] = DateOf(w.v["modified"].v)
  /\ w.v["modified"] = Num(r.v["modified"].v)
  /\ \A f \in (DOMAIN w.v) \ {"modified"} : r.v[f] = w.v[f]

SideAgrees(r, w, f) ==
  (Get(w, f) # Undef \/ Get(r, f) # Undef) =>
    /\ Get(r, f).t = "Map"
    /\ Get(w, f).t = "object"
    /\ DOMAIN Get(r, f).v = DOMAIN Get(w, f).v
    /\ \A k \in DOMAIN Get(r, f).v : NestedAgree(Get(r, f).v[k], Get(w, f).v[k])

\* C8: decoding a valid Position turns long and short into maps with the
\* keys of the wire objects and decodes every nested position under them;
\* encoding a Position does the inverse to every entry.
C8_NestedPositions ==
  entity = "Position" =>
    /\ \A d \in Decodings : SideAgrees(d.r, d.w, "long") /\ SideAgrees(d.r, d.w, "short")
    /\ \A c \in Encodings : SideAgrees(c.r, c.w, "long") /\ SideAgrees(c.r, c.w, "short")

\* C8 witness: a Position with two long entries and a short entry, each
\* with a lot, was decoded and encoded again.
C8_Witness ==
  /\ entity = "Position"
  /\ \E d \in Decodings :
       /\ Get(d.w, "long").t = "object"
       /\ Get(d.w, "short").t = "object"
       /\ DOMAIN Get(d.w, "long").v = Symbols
       /\ DOMAIN Get(d.w, "short").v # {}
       /\ \A k \in Symbols : Len(Get(d.w, "long").v[k].v["lots"].v) > 0
       /\ Get(d.r, "long").t = "Map"
  /\ \E c \in Encodings :
       /\ Get(c.r, "long").t = "Map"
       /\ DOMAIN Get(c.r, "long").v = Symbols
       /\ Get(c.w, "long").t = "object"

\* C9: validation succeeds only if every required field is present and
\* every present field has the primitive type of its kind; a value with
\* every required field valid and no optional field is accepted.
C9_RequiredAndTyped ==
  \A c \in Validations :
    /\ c.ok =>
         /\ c.w.t = "object"
         /\ \A i \in DOMAIN Fields(entity) :
              LET f == Fields(entity)[i]
              IN IF f.name \in Present(c.w)
                   THEN PrimitiveOk(f.kind, c.w.v[f.name])
                   ELSE ~f.req
    /\ (/\ Conforms(entity, c.w)
        /\ Present(c.w) = Required(entity)
        /\ (entity \in ActionEntities => HasLegalPair(c.w)))
         => c.ok

\* C9 witness: an Asset that holds every field but currency was rejected.
C9_Witness ==
  /\ entity = "Asset"
  /\ \E c \in Validations :
       /\ ~c.ok
       /\ c.w.t = "object"
       /\ Present(c.w) = FieldNames(entity) \ {"currency"}

\* C10: MarketBar validation accepts interval only from its ten tokens,
\* Order validation type only from its four, OrderState validation status
\* only from its six (and type from its four); a value that follows the
\* data model with a token of the set is accepted.
C10_Enumerations ==
  \A c \in Validations :
    /\ (entity = "MarketBar" /\ c.ok) => KindConforms("interval", Get(c.w, "interval"))
    /\ (entity \in {"Order", "OrderState"} /\ c.ok) => KindConforms("otype", Get(c.w, "type"))
    /\ (entity = "OrderState" /\ c.ok) => KindConforms("status", Get(c.w, "status"))
    /\ (/\ entity \in {"MarketBar", "Order", "OrderState"}
        /\ Conforms(entity, c.w)
        /\ (entity \in ActionEntities => HasLegalPair(c.w)))
         => c.ok

\* C10 witness: a MarketBar whose interval is 1H, every other field valid,
\* was rejected.
C10_Witness ==
  /\ entity = "MarketBar"
  /\ \E c \in Validations :
       /\ c.w.t = "object"
       /\ Get(c.w, "interval") = Str("1H")
       /\ Conforms(entity, Put(c.w, "interval", Str("1h")))
       /\ ~c.ok

\* C11: for every entity and every optional field that the runtime value
\* does not hold, the wire object an encode function returns has no key for
\* that field at all, not even one holding undefined or null.
C11_EncodeOmitsAbsent ==
  \A c \in Encodings : \A f \in Optional(entity) :
    f \notin Present(c.r) => f \notin DOMAIN c.w.v

\* C12: for every entity and every optional field that the validated wire
\* value does not hold, reading the field of the decoded runtime value gives
\* undefined: no default and no sentinel is put in its place.
C12_DecodeLeavesAbsent ==
  \A d \in Decodings : \A f \in Optional(entity) :
    f \notin Present(d.w) => Get(d.r, f) = Undef

\* C12 witness: an Order wire value holding only its required fields was
\* decoded by decodeOrder, and the result has no price, stopPrice or created.
C12_Witness ==
  /\ entity = "Order"
  /\ rev = "codec"
  /\ \E d \in Decodings :
       /\ Present(d.w) = Required(entity)
       /\ Present(d.r) = Required(entity)

\* the fields of a wire value that break the data model on their own: a
\* required field that is missing, or a present field not of its kind
Violating(e, w) ==
  {f \in FieldNames(e) :
     IF f \in Present(w) THEN ~KindConforms(FieldOf(e, f).kind, w.v[f]) ELSE FieldOf(e, f).req}

\* the fields the issues of a failure result are tagged with
Reported(res) == {is.path[1] : is \in {x \in res.issues : x.path # <<>>}}

\* C13: a failed validation lists a violation for every field that breaks
\* its constraint, for every entity, Order, OrderState and Fill included.
C13_AllViolations ==
  \A i \in DOMAIN log :
    (log[i].op \in {"validate", "parse"} /\ log[i].arg.t = "object")
      => Violating(entity, log[i].arg) \subseteq Reported(log[i].res)

\* C14: for a value of any shape, validate returns either a success that
\* carries the typed view and no issue, or a failure that carries at least
\* one issue; the view holds the values of the input unchanged, and a value
\* that is no object, or that holds a field of the wrong primitive type, is
\* a failure.
C14_ResultNeverCoerced ==
  \A i \in DOMAIN log :
    log[i].op = "validate" =>
      LET x == log[i].arg
          res == log[i].res
      IN /\ IF res.ok THEN res.issues = {} /\ res.value.t = "object" ELSE res.issues # {}
         /\ res.ok => \A f \in DOMAIN res.value.v : res.value.v[f] = Get(x, f)
         /\ x.t # "object" => ~res.ok
         /\ x.t = "object" =>
              \A f \in Present(x) \cap FieldNames(entity) :
                ~PrimitiveOk(FieldOf(entity, f).kind, x.v[f]) => ~res.ok

\* C14 witness: an Order whose quantity is the string "100", every other
\* field valid, was validated and the result is a failure with an issue.
C14_Witness ==
  /\ entity = "Order"
  /\ \E i \in DOMAIN log :
       /\ log[i].op = "validate"
       /\ log[i].arg.t = "object"
       /\ Get(log[i].arg, "quantity") = Str("100")
       /\ Violating(entity, log[i].arg) = {"quantity"}
       /\ ~log[i].res.ok
       /\ log[i].res.issues # {}

\* a wire value without the keys its schema does not declare
Known(e, x) == Obj([k \in (DOMAIN x.v) \cap FieldNames(e) |-> x.v[k]])

\* the value holds a key the schema does not declare and follows the data
\* model otherwise
ExtraConforming(e, x) ==
  /\ x.t = "object"
  /\ ~((DOMAIN x.v) \subseteq FieldNames(e))
  /\ Conforms(e, x)
  /\ (e \in ActionEntities => HasLegalPair(x))

\* C15: a wire value that follows the schema and carries further keys
\* passes validation with no issue, with the result the value without those
\* keys has, and decoding it gives what decoding that value gives.
C15_ExtraTolerated ==
  \A i \in DOMAIN log :
    /\ (log[i].op = "validate" /\ ExtraConforming(entity, log[i].arg)) =>
         /\ log[i].res.ok
         /\ log[i].res.issues = {}
         /\ log[i].res = SafeParse(WireSchema(entity), Known(entity, log[i].arg))
    /\ (log[i].op = "parse" /\ ExtraConforming(entity, log[i].arg)) =>
         /\ log[i].res.ok
         /\ log[i].res = Parse(entity, Known(entity, log[i].arg))
    /\ (i > 1 /\ log[i].op = "decode" /\ log[i - 1].op = "validate"
          /\ ExtraConforming(entity, log[i - 1].arg)) =>
         log[i].res = Decode(entity, Known(entity, log[i - 1].arg))

\* C15 witness: a Fill that follows the schema and holds the keys extra and
\* note was validated with success and then decoded.
C15_Witness ==
  /\ entity = "Fill"
  /\ Len(log) >= 2
  /\ log[1].op = "validate"
  /\ ExtraConforming(entity, log[1].arg)
  /\ {"extra", "note"} \subseteq DOMAIN log[1].arg.v
  /\ log[1].res.ok
  /\ log[2].op = "decode"

\* a runtime value of the entity's type: Order, OrderState and Fill hold
\* one of the four legal pairs, and every instant is a valid Date
ValidRuntime(e, r) ==
  /\ e \in ActionEntities => HasLegalPair(r)
  /\ \A f \in TimeFields(e) : Get(r, f) # InvalidDate

\* C16: the wire object an encode function returns for a valid runtime
\* value passes the wire validation of the same entity, and XSchema of
\* index.ts accepts it as well.
C16_EncodedValidates ==
  \A i \in DOMAIN log :
    (/\ i > 1
     /\ log[i].op \in {"validate", "parse"}
     /\ log[i - 1].op \in {"encode", "toWire"}
     /\ ValidRuntime(entity, log[i - 1].arg))
      => log[i].res.ok /\ log[i].res.issues = {}

\* C16 witness: a Position with two long entries and a short entry was
\* encoded by encodePosition and the result passed PositionWireSchema.
C16_Witness ==
  /\ entity = "Position"
  /\ rev = "codec"
  /\ Len(log) >= 2
  /\ log[1].op = "encode"
  /\ Get(log[1].arg, "long").t = "Map"
  /\ DOMAIN Get(log[1].arg, "long").v = Symbols
  /\ Get(log[1].arg, "short").t = "Map"
  /\ DOMAIN Get(log[1].arg, "short").v # {}
  /\ log[2].op = "validate"
  /\ log[2].res.ok

\* C17: wire validation accepts a timestamp if and only if it is an
\* integer: a value that passes holds only integer timestamps, and a value
\* that follows the data model with integer timestamps, negative, zero or
\* positive, passes.
C17_TimestampInteger ==
  \A c \in Validations :
    c.w.t = "object" =>
      /\ c.ok => \A f \in TimeFields(entity) \cap Present(c.w) : IsInteger(c.w.v[f])
      /\ (/\ Conforms(entity, c.w)
          /\ (entity \in ActionEntities => HasLegalPair(c.w))
          /\ \A f \in TimeFields(entity) \cap Present(c.w) : IsInteger(c.w.v[f]))
           => c.ok

\* C18: a value that follows the data model passes validation whatever the
\* sign of its numbers, zero and fractions included, and decode and encode
\* hand every number field on unchanged.
C18_NumbersUnclamped ==
  /\ \A c \in Validations :
       (/\ Conforms(entity, c.w)
        /\ (entity \in ActionEntities => HasLegalPair(c.w))
        /\ \A f \in NumberFields(entity) \cap Present(c.w) : c.w.v[f].t = "number")
         => c.ok
  /\ \A d \in Decodings :
       \A f \in NumberFields(entity) \cap Present(d.w) : Get(d.r, f) = d.w.v[f]
  /\ \A c \in Encodings :
       \A f \in NumberFields(entity) \cap Present(c.r) : Get(c.w, f) = c.r.v[f]

\* C18 witness: a MarketQuote whose price and volume are 0 was validated,
\* decoded and encoded again, and the wire object holds 0 in both.
C18_Witness ==
  /\ entity = "MarketQuote"
  /\ rev = "codec"
  /\ Len(log) = 3
  /\ log[1].op = "validate"
  /\ log[1].res.ok
  /\ Get(log[1].arg, "price") = Num(0)
  /\ Get(log[1].arg, "volume") = Num(0)
  /\ log[3].op = "encode"
  /\ Get(log[3].res, "price") = Num(0)
  /\ Get(log[3].res, "volume") = Num(0)

\* the integer a field holds
IntOf(w, f) == Get(w, f).v

\* C19: an OrderState that follows the data model is accepted when
\* filledQuantity + remainingQuantity differs from quantity and when status
\* is FILLED with remainingQuantity not 0; an Asset that follows the data
\* model is accepted when validFrom is greater than validUntil and when only
\* one of the two is present.
C19_NoCrossField ==
  \A c \in Validations :
    /\ (/\ entity = "OrderState"
        /\ Conforms(entity, c.w)
        /\ HasLegalPair(c.w)
        /\ \A f \in {"quantity", "filledQuantity", "remainingQuantity"} : IsInteger(c.w.v[f])
        /\ \/ IntOf(c.w, "filledQuantity") + IntOf(c.w, "remainingQuantity") # IntOf(c.w, "quantity")
           \/ Get(c.w, "status") = Str("FILLED") /\ IntOf(c.w, "remainingQuantity") # 0)
         => c.ok
    /\ (/\ entity = "Asset"
        /\ Conforms(entity, c.w)
        /\ \/ /\ {"validFrom", "validUntil"} \subseteq Present(c.w)
              /\ IsInteger(c.w.v["validFrom"]) /\ IsInteger(c.w.v["validUntil"])
              /\ IntOf(c.w, "validFrom") > IntOf(c.w, "validUntil")
           \/ Cardinality({"validFrom", "validUntil"} \cap Present(c.w)) = 1)
         => c.ok

\* C19 witness: an OrderState with status FILLED, remainingQuantity not 0
\* and filledQuantity + remainingQuantity other than quantity was accepted.
C19_Witness ==
  /\ entity = "OrderState"
  /\ \E c \in Validations :
       /\ c.ok
       /\ Get(c.w, "status") = Str("FILLED")
       /\ IsInteger(Get(c.w, "remainingQuantity")) /\ IntOf(c.w, "remainingQuantity") # 0
       /\ IsInteger(Get(c.w, "filledQuantity")) /\ IsInteger(Get(c.w, "quantity"))
       /\ IntOf(c.w, "filledQuantity") + IntOf(c.w, "remainingQuantity") # IntOf(c.w, "quantity")

\* C20: a PartialOrder holding just a string id passes validation, one
\* without id fails, and decode and encode return a value that holds
\* exactly the fields their argument holds, for every subset of the
\* optional fields.
C20_PartialOrderSubsets ==
  entity = "PartialOrder" =>
    /\ \A c \in Validations :
         c.w.t = "object" =>
           /\ (Present(c.w) = {"id"} /\ c.w.v["id"].t = "string") => c.ok
           /\ "id" \notin Present(c.w) => ~c.ok
    /\ \A d \in Decodings : Present(d.r) = Present(d.w) \cap FieldNames(entity)
    /\ \A c \in Encodings : Present(c.w) = Present(c.r)

\* two lot sequences have the same length and hold, place by place, a lot
\* with the same quantity, price and total
SameLots(a, b) ==
  /\ a.t = "array"
  /\ b.t = "array"
  /\ Len(a.v) = Len(b.v)
  /\ \A i \in 1..Len(a.v) :
       \A f \in {"quantity", "price", "totalCost", "totalProceeds"} :
         Get(a.v[i], f) = Get(b.v[i], f)

\* the lots of every position under long or short of x are those of the
\* position under the same key of y
SameNestedLots(x, y, f) ==
  Get(x, f) # Undef =>
    /\ Get(y, f) # Undef
    /\ DOMAIN Get(y, f).v = DOMAIN Get(x, f).v
    /\ \A k \in DOMAIN Get(x, f).v :
         SameLots(Get(Get(y, f).v[k], "lots"), Get(Get(x, f).v[k], "lots"))

\* C21: decode and encode keep the lots of a LongPosition and of a
\* ShortPosition in their order and with their content, alone and under
\* long and short of a Position.
C21_LotsKeepOrder ==
  /\ entity \in {"LongPosition", "ShortPosition"} =>
       /\ \A d \in Decodings : SameLots(Get(d.r, "lots"), Get(d.w, "lots"))
       /\ \A c \in Encodings : SameLots(Get(c.w, "lots"), Get(c.r, "lots"))
  /\ entity = "Position" =>
       /\ \A d \in Decodings : \A f \in {"long", "short"} : SameNestedLots(d.w, d.r, f)
       /\ \A c \in Encodings : \A f \in {"long", "short"} : SameNestedLots(c.r, c.w, f)

\* C21 witness: a LongPosition with two lots that differ was decoded by
\* decodeLongPosition and encoded again, and the wire object holds two lots.
C21_Witness ==
  /\ entity = "LongPosition"
  /\ rev = "codec"
  /\ \E d \in Decodings :
       /\ Len(Get(d.w, "lots").v) = 2
       /\ Get(d.w, "lots").v[1] # Get(d.w, "lots").v[2]
       /\ Len(Get(d.r, "lots").v) = 2
  /\ \E c \in Encodings : Len(Get(c.w, "lots").v) = 2

\* C25: the wire object an encode function returns holds no key outside the
\* wire fields of its entity, whatever further properties the runtime
\* argument carries; toWireOrder, toWirePartialOrder, toWireOrderState and
\* toWireFill included.
C25_NoForeignKeys ==
  \A c \in Encodings : DOMAIN c.w.v \subseteq FieldNames(entity)

\* C26: a Position whose long or short is an empty object decodes to a
\* Position whose long or short is a map with no entry, and that encodes to
\* an empty object again; a long or short that is absent stays absent both
\* ways (a property holding undefined counts as absent).
C26_EmptyIsNotAbsent ==
  entity = "Position" =>
    \A f \in {"long", "short"} :
      /\ \A d \in Decodings :
           /\ Get(d.w, f) = Obj(EmptyFcn) => Get(d.r, f) = MapOf(EmptyFcn)
           /\ f \notin Present(d.w) => f \notin Present(d.r)
      /\ \A c \in Encodings :
           /\ Get(c.r, f) = MapOf(EmptyFcn) => Get(c.w, f) = Obj(EmptyFcn)
           /\ f \notin Present(c.r) => f \notin Present(c.w)

\* C26 witness: a wire Position with long and short both empty objects was
\* decoded to empty maps, and the runtime value was encoded to empty objects.
C26_Witness ==
  /\ entity = "Position"
  /\ \E d \in Decodings :
       /\ Get(d.w, "long") = Obj(EmptyFcn)
       /\ Get(d.w, "short") = Obj(EmptyFcn)
       /\ Get(d.r, "long") = MapOf(EmptyFcn)
  /\ \E c \in Encodings :
       /\ Get(c.r, "long") = MapOf(EmptyFcn)
       /\ Get(c.w, "long") = Obj(EmptyFcn)
       /\ Get(c.w, "short") = Obj(EmptyFcn)

\* C27: for every wire value the wire schema accepts, XSchema.parse of
\* index.ts and decodeX of the validated view give the same runtime value,
\* and for every valid runtime value toWireX and encodeX give the same wire
\* object; a property holding undefined counts as absent.
C27_RevisionsAgree ==
  /\ \A i \in DOMAIN log :
       (log[i].op \in {"validate", "parse"} /\ log[i].res.ok) =>
         Defined(Parse(entity, log[i].arg).value)
           = Defined(Decode(entity, SafeParse(WireSchema(entity), log[i].arg).value))
  /\ \A c \in Encodings :
       ValidRuntime(entity, c.r) => Defined(ToWire(entity, c.r)) = Defined(Encode(entity, c.r))

\* C28: the view a successful wire validation returns holds, under every
\* schema field the input holds, the value the input holds there, and no
\* value under a field the input does not hold; validating the view again
\* succeeds and returns an equal view.
C28_ValidateIdempotent ==
  \A i \in DOMAIN log :
    (log[i].op = "validate" /\ log[i].res.ok) =>
      /\ \A f \in FieldNames(entity) :
           Get(log[i].res.value, f) = (IF f \in Present(log[i].arg) THEN log[i].arg.v[f] ELSE Undef)
      /\ (i < Len(log) /\ log[i + 1].op = "validate") =>
           /\ log[i + 1].arg = log[i].res.value
           /\ log[i + 1].res.ok
           /\ log[i + 1].res.value = log[i].res.value

\* C28 witness: an Order holding every field was validated, and its view
\* was validated again with success.
C28_Witness ==
  /\ entity = "Order"
  /\ Len(log) >= 2
  /\ log[1].op = "validate"
  /\ log[1].res.ok
  /\ Present(log[1].arg) = FieldNames(entity)
  /\ log[2].op = "validate"
  /\ log[2].arg = log[1].res.value
  /\ log[2].res.ok

\* C29: every timestamp of a wire value that passed validation decodes to a
\* valid instant, and the number that instant encodes to is no NaN and
\* passes validation again, also for a timestamp beyond the range of Date.
C29_InstantsValid ==
  /\ \A d \in Decodings : \A f \in TimeFields(entity) :
       Get(d.r, f).t = "Date" => Get(d.r, f) # InvalidDate
  /\ \A i \in DOMAIN log :
       (i > 1 /\ log[i].op \in {"encode", "toWire"} /\ log[i - 1].op \in {"decode", "parse"}) =>
         /\ \A f \in TimeFields(entity) : Get(log[i].res, f) # NaN
         /\ SafeParse(WireSchema(entity), log[i].res).ok

\* C22: after an encode or decode call, appending to a lots array of the
\* result, or replacing an element of it, leaves the lots of the argument
\* as they were, and a change to the lots of the argument leaves those of
\* the result as they were.
C22_ResultIsFresh ==
  \A c \in Callers :
    calls[c].op \in {"encode", "decode", "toWire", "parse"} =>
      /\ calls[c].hit = "res" => Deref(heap, calls[c].arg) = calls[c].argAt
      /\ calls[c].hit = "arg" => Deref(heap, calls[c].res) = calls[c].resAt

\* C23: after a call returns, the argument holds what it held before the
\* call (every field, map entry, lot and instant, read from the cells the
\* argument leads to), and two calls of the same operation on equal
\* arguments, made at different times on different objects, returned equal
\* results.
C23_Pure ==
  /\ \A c \in Callers :
       (calls[c].n > 0 /\ calls[c].hit = "none") =>
         Deref(heap, calls[c].arg) = calls[c].argWas
  /\ \A c \in Callers : \A d \in Callers :
       (/\ calls[c].n > 0
        /\ calls[d].n > 0
        /\ calls[c].op = calls[d].op
        /\ calls[c].argWas = calls[d].argWas)
         => calls[c].resWas = calls[d].resWas

\* C23 witness: both callers have decoded a wire Position that holds the
\* same, each from objects of its own and one after the other.
C23_Witness ==
  /\ entity = "Position"
  /\ rev = "codec"
  /\ \A c \in Callers :
       /\ calls[c].op = "decode"
       /\ calls[c].hit = "none"
       /\ Len(calls[c].argWas.v["long"].v["BTCUSDT"].v["lots"].v) = MaxLots
       /\ calls[c].resWas.v["modified"].t = "Date"
  /\ Reach(heap, calls["a"].arg) \cap Reach(heap, calls["b"].arg) = {}
  /\ calls["a"].argWas = calls["b"].argWas
  /\ calls["a"].at # calls["b"].at

\* C24: whatever the other callers do in between, the result of a call,
\* read at any later point, is the result the same call gives when the
\* call gave on a heap that held its argument alone.
C24_Independent ==
  \A c \in Callers :
    (calls[c].n > 0 /\ calls[c].hit = "none") =>
      Deref(heap, calls[c].res) = calls[c].aloneWas

\* C24 witness: caller a decoded a wire Position, caller b then decoded
\* one that holds other instants, caller a went on to encode what it had
\* decoded, and caller b changed a lots array of its result.
C24_Witness ==
  /\ entity = "Position"
  /\ rev = "codec"
  /\ calls["a"].n = 2
  /\ calls["a"].op = "encode"
  /\ calls["a"].at = 3
  /\ calls["a"].hit = "none"
  /\ calls["b"].op = "decode"
  /\ calls["b"].at = 2
  /\ calls["b"].hit = "res"
  /\ calls["a"].argWas.v["modified"] # calls["b"].resWas.v["modified"]

====
